---- MODULE Spec2Model ----
(***************************************************************************)
(* A model of class_namespaces (src/src/class_namespaces): Namespace, the  *)
(* construction-time scope _NamespaceScope, the runtime _NamespaceProxy    *)
(* and the metaclass NamespaceableMeta.                                    *)
(*                                                                         *)
(* Every operation of the package is an operator over a "world" record W   *)
(* (the heap of Namespace objects, the scopes, the class attribute tables  *)
(* and the two registries) which returns the world it leaves behind and    *)
(* what it returned or raised.  Operations that raise after having changed *)
(* part of the world return that partly changed world.  The actions at the *)
(* end of the module apply one operation each to the current state.        *)
(***************************************************************************)
EXTENDS Integers, Sequences, FiniteSets, TLC

VARIABLES
    heap,                  \* Namespace objects, by identity (index)
    dicts,                 \* _NamespaceScope._dicts, per class scope
    namespaces,            \* _NamespaceScope.namespaces, per class scope
    finalized,             \* _NamespaceScope.finalized, per class scope
    head,                  \* contents of the basal dict of each scope
    clsvars,               \* vars(cls): the attribute table of each class
    phase,                 \* "none" | "body" | "created" | "failed", per class
    blocks,                \* open `with` blocks of each class body
    Namespace__namespaces, \* Namespace.__namespaces: (class, path) -> Namespace
    NAMESPACE_INFOS,       \* _NAMESPACE_INFOS: instance -> path -> Namespace
    set_name_calls,        \* the calls of __set_name__ hooks made so far
    steps,                 \* number of runtime operations performed so far
    stmts,                 \* number of class body statements run so far
    op,                    \* the last operation performed
    ret                    \* what the last operation returned or raised

vars == <<heap, dicts, namespaces, finalized, head, clsvars, phase, blocks,
          Namespace__namespaces, NAMESPACE_INFOS, set_name_calls, steps, stmts,
          op, ret>>

-----------------------------------------------------------------------------
(* Bounds of the model.                                                    *)

MaxNs == 4
MaxSteps == 4
MaxStmts == 9
MaxCalls == 2

-----------------------------------------------------------------------------
(* The class hierarchy.  Method resolution orders are computed by the      *)
(* interpreter, not by the package; they are data here.  Only instances of *)
(* NamespaceableMeta are listed: _mro_to_chained filters out the others    *)
(* (object, type, NamespaceableMeta itself), and Namespaceable, which      *)
(* holds no names of the model, never contributes a lookup.                *)
(*   1 = Test            2 = Subclass(Test)     3 = DoubleSubclass(Subclass) *)
(*   4 = Test2           5 = Test3(Test2, Test)                              *)
(*   6 = Meta(Namespaceable, NamespaceableMeta)                              *)
(*   7 = MTest(Namespaceable, metaclass=Meta)                                *)
(*   8 = Bare(metaclass=NamespaceableMeta), the metaclass used directly      *)
(*   9 = Fixed(tuple, metaclass=NamespaceableMeta), with __slots__ = ()      *)

AllClasses == {1, 2, 3, 4, 5, 6, 7, 8, 9}

Mro(c) ==
    CASE c = 1 -> <<1>>
      [] c = 2 -> <<2, 1>>
      [] c = 3 -> <<3, 2, 1>>
      [] c = 4 -> <<4>>
      [] c = 5 -> <<5, 4, 1>>
      [] c = 6 -> <<6>>
      [] c = 7 -> <<7>>
      [] c = 8 -> <<8>>
      [] c = 9 -> <<9>>

\* issubclass(cls, Namespaceable)
issubclass_Namespaceable(c) == c \notin {8, 9}

\* type(cls) when it is itself an instance of NamespaceableMeta, else None.
MetaOf(c) == IF c = 7 THEN 6 ELSE 0

\* issubclass(cls, type)
IsMeta(c) == c = 6

\* Instances of the classes: instance 10*c + k is an instance of class c.
AllInstances == {11, 12, 21, 31, 51, 71, 91}
InstClass(i) == i \div 10

\* weakref.ref(instance) can be made: _NAMESPACE_INFOS, a WeakKeyDictionary,
\* raises TypeError for a key that cannot be, such as an instance of a tuple
\* subclass with empty __slots__.
weakrefable(instance) == InstClass(instance) # 9
IsClass(t) == t \in AllClasses
IsInstance(t) == t \in AllInstances
TypeOf(t) == IF IsInstance(t) THEN InstClass(t) ELSE MetaOf(t)

None == 0

-----------------------------------------------------------------------------
(* Names, values and results.                                              *)

Names == {"ns", "m", "x"}
NoneName == ""

\* A dotted attribute name 'a.b.c' is the sequence of its segments.
Paths == UNION {[1..k -> Names] : k \in 1..3}

\* Every value carries: t, its kind; v, its identity; h, the hooks its type
\* defines (1 = __get__, 2 = __set__, 4 = __delete__, summed); o, for a proxy,
\* the (instance, owner) or (None, scope) it was made for.
Value(t, v, h, o) == [t |-> t, v |-> v, h |-> h, o |-> o]
Absent == Value("absent", 0, 0, <<0, 0>>)
Val(n) == Value("val", n, 0, <<0, 0>>)
Desc(n, h) == Value("desc", n, h, <<0, 0>>)
NsVal(n) == Value("ns", n, 1, <<0, 0>>)
ScopeProxy(n, c) == Value("sproxy", n, 0, <<0, c>>)
NamespaceProxy(n, instance, owner) == Value("proxy", n, 0, <<instance, owner>>)

IsNamespace(value) == value.t = "ns"
IsProxy(value) == value.t \in {"sproxy", "proxy"}

\* What an operation returned or raised.
Result(t, val, inst, owner, arg, msg, key) ==
    [t |-> t, val |-> val, inst |-> inst, owner |-> owner, arg |-> arg,
     msg |-> msg, key |-> key]
RNone == Result("ok", Absent, 0, 0, Absent, "", <<>>)
RValue(value) == Result("raw", value, 0, 0, Absent, "", <<>>)
Raise(msg, key) == Result("err", Absent, 0, 0, Absent, msg, key)
IsErr(r) == r.t = "err"

\* References to mappings: a Namespace, the basal dict of a class scope, or
\* the fresh {} that get_namespace gives a top-level Namespace as parent.
NoneRef == <<"none", 0>>
Base(c) == <<"base", c>>
Ns(n) == <<"ns", n>>
Fresh == <<"fresh", 0>>

\* A mapping handed around as a value (what finalize returns, what a direct
\* _NamespaceScope.push is given).
MapVal(ref) == [t |-> ref[1], v |-> ref[2], h |-> 0, o |-> <<0, 0>>]

EmptyItems == [k \in Names |-> Absent]


-----------------------------------------------------------------------------
(* The world an operation works on, and what it hands back.                *)

World ==
    [heap |-> heap, dicts |-> dicts, namespaces |-> namespaces,
     finalized |-> finalized, head |-> head, clsvars |-> clsvars,
     phase |-> phase, blocks |-> blocks, reg |-> Namespace__namespaces,
     infos |-> NAMESPACE_INFOS, calls |-> set_name_calls]

Out(W, r) == [w |-> W, r |-> r]

Front(s) == SubSeq(s, 1, Len(s) - 1)
Last(s) == s[Len(s)]
Min(S) == CHOOSE a \in S : \A b \in S : a <= b

-----------------------------------------------------------------------------
(* ops.py and the descriptor inspector.                                    *)

\* _DescriptorInspector.has_get / has_set / has_delete / is_data
has_get_hook(value) == value.h % 2 = 1
has_set_hook(value) == (value.h \div 2) % 2 = 1
has_delete_hook(value) == (value.h \div 4) % 2 = 1
has_set_name_hook(value) == (value.h \div 8) % 2 = 1
inspector_is_data(value) == has_set_hook(value) \/ has_delete_hook(value)

\* ops.has_get, ops.is_data: None (Absent) has neither.
has_get(value) == value # Absent /\ has_get_hook(value)
is_data(value) == value # Absent /\ inspector_is_data(value)

\* flags.ENABLE_SET_NAME: the interpreter has __set_name__ (3.6 and later).
ENABLE_SET_NAME == TRUE

\* _DescriptorInspector.has_set_name, on a value of a mapping
has_set_name(value) == value # Absent /\ has_set_name_hook(value)

\* _DescriptorInspector.set_name(owner, name) on the value that the mapping
\* ns (a Namespace, or 0 for the dict of the class) holds under name: the
\* call is recorded.
set_name(value, ns, owner, name) ==
    [value |-> value, ns |-> ns, owner |-> owner, name |-> name]

\* _DescriptorInspector.get: the hook, called through the type.  For a
\* Namespace the hook is Namespace.__get__, which builds the runtime proxy.
Namespace__get__(value, instance, owner) ==
    Result("proxy", NamespaceProxy(value.v, instance, owner), instance, owner,
           Absent, "", <<>>)
descriptor_get(value, instance, owner) ==
    IF ~has_get_hook(value) THEN Raise("AttributeError", <<"__get__">>)
    ELSE IF IsNamespace(value) THEN Namespace__get__(value, instance, owner)
    ELSE Result("get", value, instance, owner, Absent, "", <<>>)
descriptor_set(value, instance, arg) ==
    IF ~has_set_hook(value) THEN Raise("AttributeError", <<"__set__">>)
    ELSE Result("set", value, instance, 0, arg, "", <<>>)
descriptor_delete(value, instance) ==
    IF ~has_delete_hook(value) THEN Raise("AttributeError", <<"__delete__">>)
    ELSE Result("delete", value, instance, 0, Absent, "", <<>>)

\* A ChainMap over Namespaces, as the sequence of their identities; ops.get
\* on it returns the first match or None.
ChainHits(W, chain, name) ==
    {i \in 1..Len(chain) : W.heap[chain[i]].items[name] # Absent}
ChainSource(W, chain, name) ==
    IF ChainHits(W, chain, name) = {} THEN 0
    ELSE chain[Min(ChainHits(W, chain, name))]
ops_get(W, chain, name) ==
    IF ChainSource(W, chain, name) = 0 THEN Absent
    ELSE W.heap[ChainSource(W, chain, name)].items[name]

\* ops.get_data
get_data(W, chain, name) ==
    IF is_data(ops_get(W, chain, name)) THEN ops_get(W, chain, name) ELSE Absent

\* A faulty ops.delete: the entry is kept.
ops_delete_kept(W, n, name) ==
    IF W.heap[n].items[name] = Absent THEN Out(W, Raise("AttributeError", <<name>>))
    ELSE Out(W, RNone)

\* ops.delete on a Namespace
ops_delete(W, n, name) ==
    IF W.heap[n].items[name] = Absent THEN Out(W, Raise("AttributeError", <<name>>))
    ELSE Out([W EXCEPT !.heap[n].items[name] = Absent], RNone)

-----------------------------------------------------------------------------
(* Namespace.                                                              *)

\* Namespace.__init__ without initial values
NewNamespace ==
    [name |-> NoneName, scope |-> None, parent |-> NoneRef, active |-> FALSE,
     parent_object |-> None, needs_setup |-> FALSE, items |-> EmptyItems]

\* Namespace.premake
premake(name, parent) == [NewNamespace EXCEPT !.name = name, !.parent = parent]

PathError == <<"!ValueError">>

\* A faulty path: the name of the Namespace alone.
Namespace_path_own(W, n) ==
    IF W.heap[n].name = NoneName \/ W.heap[n].parent = NoneRef THEN PathError
    ELSE <<W.heap[n].name>>

\* Namespace.path
RECURSIVE Namespace_path(_, _)
Namespace_path(W, n) ==
    LET self == W.heap[n] IN
    IF self.name = NoneName \/ self.parent = NoneRef THEN PathError
    ELSE IF self.parent[1] = "ns"
    THEN LET parent_path == Namespace_path(W, self.parent[2]) IN
         IF parent_path = PathError THEN PathError
         ELSE Append(parent_path, self.name)
    ELSE <<self.name>>

\* Namespace.__get_helper followed by the lookup: the registered Namespace of
\* (target, path), or None.  Classes live in Namespace.__namespaces, all
\* other targets in their own table of _NAMESPACE_INFOS.
Registered(W, target, path) ==
    IF IsClass(target)
    THEN {e[3] : e \in {e \in W.reg : e[1] = target /\ e[2] = path}}
    ELSE {e[2] : e \in {e \in W.infos[target] : e[1] = path}}
Lookup(W, target, path) ==
    IF Registered(W, target, path) = {} THEN 0
    ELSE CHOOSE n \in Registered(W, target, path) : TRUE

\* A faulty setdefault: the new Namespace takes the place of the registered one.
setdefault_replace(W, target, path, n) ==
    IF IsClass(target)
    THEN [W EXCEPT !.reg = {e \in @ : ~(e[1] = target /\ e[2] = path)}
                             \cup {<<target, path, n>>}]
    ELSE [W EXCEPT !.infos[target] = {e \in @ : e[1] # path} \cup {<<path, n>>}]

\* namespaces.setdefault(path_, n)
setdefault(W, target, path, n) ==
    IF Lookup(W, target, path) # 0 THEN W
    ELSE IF IsClass(target)
    THEN [W EXCEPT !.reg = @ \cup {<<target, path, n>>}]
    ELSE [W EXCEPT !.infos[target] = @ \cup {<<path, n>>}]

\* Namespace.namespace_exists
namespace_exists(W, path, target) == Lookup(W, target, path) # 0

\* Namespace.get_namespace: [w, n], the world it leaves and the Namespace.
RECURSIVE get_namespace(_, _, _)
get_namespace(W, target, path) ==
    LET Create(W0, parent) ==
            [w |-> setdefault([W0 EXCEPT !.heap = Append(@, premake(Last(path), parent))],
                              target, path, Len(W0.heap) + 1),
             n |-> Len(W0.heap) + 1]
        Under(up) == Create(up.w, Ns(up.n))
        Found(n) ==
            IF n # 0 THEN [w |-> W, n |-> n]
            ELSE IF Len(path) = 1 THEN Create(W, Fresh)
            ELSE Under(get_namespace(W, target, Front(path)))
    IN Found(Lookup(W, target, path))

\* vars(cls_)[name] and namespace[name] in no_blocker
RECURSIVE blocker_walk(_, _, _)
blocker_walk(W, items, path) ==
    IF path = <<>> THEN TRUE
    ELSE IF items[Head(path)] = Absent THEN TRUE
    ELSE IF ~IsNamespace(items[Head(path)]) THEN FALSE
    ELSE blocker_walk(W, W.heap[items[Head(path)].v].items, Tail(path))

\* A faulty no_blocker: no class ever blocks.
no_blocker_ignored(W, path, cls_) == TRUE

\* Namespace.no_blocker
no_blocker(W, path, cls_) == blocker_walk(W, W.clsvars[cls_], path)

\* Namespace.add
add(W, n, target) ==
    LET Bind(W1, path) ==
            IF Lookup(W1, target, path) = n
            THEN Out([W1 EXCEPT !.heap[n].parent_object = target], RNone)
            ELSE Out(W1, RNone)
        Register(path) ==
            IF path = PathError THEN Out(W, Raise("ValueError", <<>>))
            ELSE Bind(setdefault(W, target, path, n), path)
    IN IF target = None THEN Out(W, RNone) ELSE Register(Namespace_path(W, n))

\* A faulty head: the basal dict, whatever overlays are open.
scope_basal(W, c) == W.dicts[c][Len(W.dicts[c])]

\* _NamespaceScope.head
scope_head(W, c) == W.dicts[c][1]

\* _NamespaceScope.push
scope_push(W, c, ref) ==
    IF W.finalized[c]
    THEN Out(W, Raise("ValueError: Cannot push a finalized scope!", <<>>))
    ELSE Out([W EXCEPT !.dicts[c] = <<ref>> \o @], RNone)

\* _NamespaceScope.pop_
scope_pop_(W, c) ==
    IF Len(W.dicts[c]) = 1
    THEN Out(W, Raise("ValueError: Cannot pop from a basal scope!", <<>>))
    ELSE Out([W EXCEPT !.dicts[c] = Tail(@)], RNone)

\* Namespace.validate_parent
validate_parent(W, n, parent) ==
    IF parent # W.heap[n].parent
    THEN Raise("ValueError: Cannot reparent namespace", <<>>) ELSE RNone

\* A faulty validate_assignment: the scope is not compared.
validate_assignment_named(W, n, name, scope) ==
    IF name # W.heap[n].name
    THEN Raise("ValueError: Cannot rename namespace", <<>>)
    ELSE RNone

\* Namespace.validate_assignment
validate_assignment(W, n, name, scope) ==
    IF name # W.heap[n].name
    THEN Raise("ValueError: Cannot rename namespace", <<>>)
    ELSE IF scope # W.heap[n].scope
    THEN Raise("ValueError: Cannot reuse namespace", <<>>)
    ELSE RNone

\* Namespace.activate
activate(W, n) ==
    LET self == W.heap[n]
        Setup(pushed) ==
            IF IsErr(pushed.r) THEN pushed
            ELSE Out([pushed.w EXCEPT !.heap[n].needs_setup = FALSE], RNone)
        Validated(checked) ==
            IF IsErr(checked) THEN Out(W, checked)
            ELSE Setup(scope_push([W EXCEPT !.heap[n].active = TRUE], self.scope, Ns(n)))
    IN IF self.active THEN Out(W, Raise("ValueError: Cannot double-activate.", <<>>))
       ELSE IF self.scope = None THEN Out(W, RNone)
       ELSE Validated(validate_parent(W, n, scope_head(W, self.scope)))

\* A faulty deactivate: the Namespace is marked inactive but stays on the
\* overlay stack.
deactivate_unpopped(W, n) == Out([W EXCEPT !.heap[n].active = FALSE], RNone)

\* Namespace.deactivate
deactivate(W, n) ==
    LET self == W.heap[n] IN
    IF self.scope # None /\ self.active
    THEN scope_pop_([W EXCEPT !.heap[n].active = FALSE], self.scope)
    ELSE Out(W, RNone)

\* Namespace.set_if_none, for the three fields push binds
set_if_none(self, name, scope, parent) ==
    [self EXCEPT !.name = IF @ = NoneName THEN name ELSE @,
                 !.scope = IF @ = None THEN scope ELSE @,
                 !.parent = IF @ = NoneRef THEN parent ELSE @]

\* Namespace.push
push(W, n, name, scope, parent) ==
    LET Append_(W1, self) ==
            IF self.scope = None
            THEN Out(W1, Raise("AttributeError", <<"namespaces">>))
            ELSE IF self.needs_setup
            THEN activate([W1 EXCEPT !.namespaces[self.scope] = Append(@, n)], n)
            ELSE Out([W1 EXCEPT !.namespaces[self.scope] = Append(@, n)], RNone)
        Validated(W1, assignment, parent_) ==
            IF IsErr(assignment) THEN Out(W1, assignment)
            ELSE IF IsErr(parent_) THEN Out(W1, parent_)
            ELSE Append_(W1, W1.heap[n])
        Bound(W1) ==
            Validated(W1, validate_assignment(W1, n, name, scope),
                      validate_parent(W1, n, parent))
    IN Bound([W EXCEPT !.heap[n] = set_if_none(@, name, scope, parent)])

\* Namespace.__setitem__
Namespace__setitem__(W, n, key, value) ==
    LET self == W.heap[n]
        value1 == IF self.scope # None /\ value.t = "sproxy" /\ value.o[2] = self.scope
                  THEN NsVal(value.v) ELSE value
        Store(added) ==
            IF IsErr(added.r) THEN added
            ELSE Out([added.w EXCEPT !.heap[n].items[key] = value1], RNone)
        Add(pushed) ==
            IF IsErr(pushed.r) THEN pushed
            ELSE Store(add(pushed.w, value1.v, pushed.w.heap[n].parent_object))
    IN IF IsProxy(value1)
       THEN Out(W, Raise("ValueError: Cannot move scopes between classes.", <<>>))
       ELSE IF IsNamespace(value1)
       THEN Add(push(W, value1.v, key, self.scope, Ns(n)))
       ELSE Out([W EXCEPT !.heap[n].items[key] = value1], RNone)

\* Namespace.__enter__
Namespace__enter__(W, n) == activate([W EXCEPT !.heap[n].needs_setup = TRUE], n)

\* A faulty __exit__: the name is not asked for.
Namespace__exit__unnamed(W, n) == deactivate(W, n)

\* Namespace.__exit__
Namespace__exit__(W, n) ==
    IF W.heap[n].name = NoneName
    THEN Out(W, Raise("RuntimeError: Namespace must be named.", <<>>))
    ELSE deactivate(W, n)

-----------------------------------------------------------------------------
(* _NamespaceScope: the mapping a class body writes into.                  *)

\* The contents of the mapping a reference names.
RefItems(W, ref) ==
    IF ref[1] = "base" THEN W.head[ref[2]]
    ELSE IF ref[1] = "ns" THEN W.heap[ref[2]].items
    ELSE EmptyItems

\* collections.ChainMap(*self._dicts)[key]
RECURSIVE chainmap_get(_, _, _)
chainmap_get(W, refs, key) ==
    IF refs = <<>> THEN Absent
    ELSE IF RefItems(W, Head(refs))[key] # Absent THEN RefItems(W, Head(refs))[key]
    ELSE chainmap_get(W, Tail(refs), key)

\* _NamespaceScope.wrap
wrap(value, c) == IF IsNamespace(value) THEN ScopeProxy(value.v, c) ELSE value

\* _NamespaceScope._raw_get: the Namespace under the dotted path, or None
\* for KeyError.
RECURSIVE raw_walk(_, _, _)
raw_walk(W, items, parent) ==
    IF items[Head(parent)] = Absent \/ ~IsNamespace(items[Head(parent)]) THEN 0
    ELSE IF Len(parent) = 1 THEN items[Head(parent)].v
    ELSE raw_walk(W, W.heap[items[Head(parent)].v].items, Tail(parent))

\* A faulty _raw_get: only the first segment of the path is followed.
_raw_get_first(W, c, parent) ==
    raw_walk(W, RefItems(W, scope_head(W, c)), <<Head(parent)>>)

_raw_get(W, c, parent) == raw_walk(W, RefItems(W, scope_head(W, c)), parent)

\* _NamespaceScope.__getitem__; key is the sequence of the dotted segments.
Scope__getitem__(W, c, key) ==
    LET Wrapped(value) ==
            IF value = Absent THEN Raise("KeyError", key) ELSE RValue(wrap(value, c))
        In(parent) == IF parent = 0 THEN Absent ELSE W.heap[parent].items[Last(key)]
    IN Wrapped(IF W.finalized[c]
               THEN IF Len(key) > 1 THEN In(_raw_get(W, c, Front(key)))
                    ELSE RefItems(W, scope_head(W, c))[key[1]]
               ELSE IF Len(key) > 1 THEN Absent
               ELSE chainmap_get(W, W.dicts[c], key[1]))

\* dct[key] = value for a mapping reference: a plain dict or a Namespace.
Mapping__setitem__(W, ref, key, value) ==
    IF ref[1] = "base" THEN Out([W EXCEPT !.head[ref[2]][key] = value], RNone)
    ELSE Namespace__setitem__(W, ref[2], key, value)

\* del dct[key] for a mapping reference (Namespace inherits dict.__delitem__).
Mapping__delitem__(W, ref, key) ==
    IF RefItems(W, ref)[key] = Absent THEN Out(W, Raise("KeyError", <<key>>))
    ELSE IF ref[1] = "base" THEN Out([W EXCEPT !.head[ref[2]][key] = Absent], RNone)
    ELSE Out([W EXCEPT !.heap[ref[2]].items[key] = Absent], RNone)

\* The key as the one string the scope was given: a name, or a dotted string,
\* which is no name.
DottedName(key) == IF Len(key) = 1 THEN key[1] ELSE "."

\* _NamespaceScope._store: [w, r, value, dct]
_store(W, c, key, value, dct) ==
    LET dct1 == IF ~W.finalized[c] /\ IsNamespace(value) /\ dct = Ns(value.v)
                THEN W.dicts[c][2] ELSE dct
        own == value.t = "sproxy" /\ value.o[2] = c
        value1 == IF own THEN NsVal(value.v) ELSE value
        Checked(W1) ==
            IF ~own THEN RNone
            ELSE IF IsErr(validate_parent(W1, value.v, dct1))
            THEN validate_parent(W1, value.v, dct1)
            ELSE validate_assignment(W1, value.v, key, c)
        Stored(pushed) ==
            IF IsErr(pushed.r)
            THEN [w |-> pushed.w, r |-> pushed.r, value |-> value, dct |-> dct1]
            ELSE [w |-> pushed.w, r |-> Checked(pushed.w), value |-> value1, dct |-> dct1]
    IN Stored(IF ~W.finalized[c] /\ IsNamespace(value)
              THEN push(W, value.v, key, c, dct1) ELSE Out(W, RNone))

\* _NamespaceScope.__setitem__
Scope__setitem__(W, c, key, value) ==
    LET Into(W1, parent, value1) ==
            IF parent = 0 THEN Out(W1, Raise("KeyError", Front(key)))
            ELSE Namespace__setitem__(W1, parent, Last(key), value1)
        Place(stored) ==
            IF IsErr(stored.r) THEN Out(stored.w, stored.r)
            ELSE IF IsProxy(stored.value)
            THEN Out(stored.w, Raise("ValueError: Cannot move scopes between classes.", <<>>))
            ELSE IF W.finalized[c] /\ Len(key) > 1
            THEN Into(stored.w, _raw_get(stored.w, c, Front(key)), stored.value)
            ELSE Mapping__setitem__(stored.w, stored.dct, key[1], stored.value)
    IN Place(_store(W, c, DottedName(key), value, scope_head(W, c)))

\* _NamespaceScope.__delitem__
Scope__delitem__(W, c, key) ==
    LET From(parent) ==
            IF parent = 0 THEN Out(W, Raise("KeyError", Front(key)))
            ELSE Mapping__delitem__(W, Ns(parent), Last(key))
    IN IF W.finalized[c] /\ Len(key) > 1 THEN From(_raw_get(W, c, Front(key)))
       ELSE Mapping__delitem__(W, scope_head(W, c), key[1])

\* The names a dict iterates over, in one fixed order.
RECURSIVE KeysOf(_, _)
KeysOf(items, names) ==
    IF names = {} THEN <<>>
    ELSE LET k == CHOOSE k \in names : TRUE
             rest == KeysOf(items, names \ {k})
         IN IF items[k] = Absent THEN rest ELSE <<k>> \o rest

\* A faulty total_length: the Namespaces among the values are not looked
\* into.
total_length_flat(W, n) == Len(KeysOf(W.heap[n].items, Names))

\* sum(ns.total_length() for ns in values if isinstance(ns, Namespace)), for
\* the values under the given keys of the dict items.
RECURSIVE total_length(_, _)
RECURSIVE nested_length(_, _, _)
nested_length(W, items, keys) ==
    IF keys = <<>> THEN 0
    ELSE (IF IsNamespace(items[Head(keys)])
          THEN total_length(W, items[Head(keys)].v) ELSE 0)
         + nested_length(W, items, Tail(keys))

\* Namespace.total_length
total_length(W, n) ==
    Len(KeysOf(W.heap[n].items, Names))
    + nested_length(W, W.heap[n].items, KeysOf(W.heap[n].items, Names))

\* Namespace.iter_all, for the dict items: every key under the prefix, each
\* followed by the keys of the Namespace it holds.
RECURSIVE iter_all(_, _, _, _)
iter_all(W, items, keys, prefix) ==
    IF keys = <<>> THEN <<>>
    ELSE <<prefix \o <<Head(keys)>>>>
         \o (IF IsNamespace(items[Head(keys)])
             THEN iter_all(W, W.heap[items[Head(keys)].v].items,
                           KeysOf(W.heap[items[Head(keys)].v].items, Names),
                           prefix \o <<Head(keys)>>)
             ELSE <<>>)
         \o iter_all(W, items, Tail(keys), prefix)

\* An int, and the keys an iterator yields, as results.
IntVal(i) == [t |-> "int", v |-> i, h |-> 0, o |-> <<0, 0>>]
RKeys(keys) == Result("keys", Absent, 0, 0, Absent, "", keys)

\* _NamespaceScope.__iter__, run to its end
Scope__iter__(W, c) ==
    IF ~W.finalized[c]
    THEN Raise("ValueError: Iteration not defined on unfinalized scope.", <<>>)
    ELSE RKeys(iter_all(W, RefItems(W, scope_head(W, c)),
                        KeysOf(RefItems(W, scope_head(W, c)), Names), <<>>))

\* _NamespaceScope.__len__
Scope__len__(W, c) ==
    IF ~W.finalized[c]
    THEN Raise("ValueError: Length not defined on unfinalized scope.", <<>>)
    ELSE RValue(IntVal(Len(KeysOf(RefItems(W, scope_head(W, c)), Names))
                       + nested_length(W, RefItems(W, scope_head(W, c)),
                                       KeysOf(RefItems(W, scope_head(W, c)), Names))))

\* A faulty finalize: the overlay stack is not looked at.
finalize_pushed(W, c) ==
    Out([W EXCEPT !.finalized[c] = TRUE], RValue(MapVal(scope_head(W, c))))

\* _NamespaceScope.finalize
finalize(W, c) ==
    IF Len(W.dicts[c]) # 1
    THEN Out(W, Raise("ValueError: Cannot finalize a pushed scope!", <<>>))
    ELSE Out([W EXCEPT !.finalized[c] = TRUE], RValue(MapVal(scope_head(W, c))))

-----------------------------------------------------------------------------
(* NamespaceableMeta: class creation.                                      *)

\* NamespaceableMeta.__prepare__: a fresh scope over a fresh dict.
NamespaceableMeta__prepare__(W, c) ==
    [W EXCEPT !.dicts[c] = <<Base(c)>>, !.namespaces[c] = <<>>,
              !.finalized[c] = FALSE, !.head[c] = EmptyItems,
              !.phase[c] = "body", !.blocks[c] = <<>>]

\* for name, value in items: if wrapped.has_set_name: wrapped.set_name(cls, name)
RECURSIVE set_name_each(_, _, _, _)
set_name_each(items, keys, ns, c) ==
    IF keys = <<>> THEN <<>>
    ELSE (IF has_set_name(items[Head(keys)])
          THEN <<set_name(items[Head(keys)], ns, c, Head(keys))>>
          ELSE <<>>) \o set_name_each(items, Tail(keys), ns, c)

\* The __set_name__ loop over the items of one Namespace of the scope.
set_name_items(W, n, c) ==
    IF ~ENABLE_SET_NAME THEN W
    ELSE [W EXCEPT !.calls = @ \o set_name_each(W.heap[n].items,
                                               KeysOf(W.heap[n].items, Names), n, c)]

\* type.__new__ calls __set_name__ on the entries of the class dict.
type__new__(W, c) ==
    [W EXCEPT !.clsvars[c] = W.head[c],
              !.calls = @ \o set_name_each(W.head[c], KeysOf(W.head[c], Names), 0, c)]

\* for namespace in dct.namespaces: namespace.add(cls), then the
\* __set_name__ loop
RECURSIVE add_all(_, _, _)
add_all(W, ns, c) ==
    LET Rest(added) ==
            IF IsErr(added.r) THEN added
            ELSE add_all(set_name_items(added.w, Head(ns), c), Tail(ns), c)
    IN IF ns = <<>> THEN Out(W, RNone) ELSE Rest(add(W, Head(ns), c))

\* NamespaceableMeta.__new__: finalize the scope, let type.__new__ copy the
\* basal dict into the class, register the Namespaces of the body.
NamespaceableMeta__new__(W, c) ==
    LET Created(added) ==
            IF IsErr(added.r) THEN Out([added.w EXCEPT !.phase[c] = "failed"], added.r)
            ELSE Out([added.w EXCEPT !.phase[c] = "created"], RNone)
        Copied(W1) == Created(add_all(W1, W1.namespaces[c], c))
        Finalized(fin) ==
            IF IsErr(fin.r) THEN Out([fin.w EXCEPT !.phase[c] = "failed"], fin.r)
            ELSE Copied(type__new__(fin.w, c))
    IN Finalized(finalize(W, c))

-----------------------------------------------------------------------------
(* _NamespaceProxy: the runtime proxy (dct, instance, owner).              *)

\* itertools.takewhile(no_blocker(path), mro)
RECURSIVE takewhile_no_blocker(_, _, _)
takewhile_no_blocker(W, path, mro) ==
    IF mro = <<>> THEN <<>>
    ELSE IF no_blocker(W, path, Head(mro))
    THEN <<Head(mro)>> \o takewhile_no_blocker(W, path, Tail(mro))
    ELSE <<>>

\* _mro_to_chained, given dct.path: the Namespaces of the chained map.
chain_of(W, mro, path) ==
    LET exists(cls) == namespace_exists(W, path, cls)
        Maps(kept) == [i \in 1..Len(kept) |-> Lookup(W, kept[i], path)]
    IN Maps(SelectSeq(takewhile_no_blocker(W, path, mro), exists))

\* A chained map, or the exception that computing it raised.
Chain(W, chain) == [w |-> W, r |-> RNone, chain |-> chain]
ChainErr(W, r) == [w |-> W, r |-> r, chain |-> <<>>]

\* _mro_to_chained
_mro_to_chained(W, mro, dct) ==
    LET Chained(path) ==
            IF path = PathError THEN ChainErr(W, Raise("ValueError", <<>>))
            ELSE Chain(W, chain_of(W, mro, path))
    IN Chained(Namespace_path(W, dct))

\* _instance_map
_instance_map(W, dct, instance) ==
    LET Single(got) == Chain(got.w, <<got.n>>)
        Own(path) ==
            IF path = PathError THEN ChainErr(W, Raise("ValueError", <<>>))
            ELSE IF ~weakrefable(instance) THEN Chain(W, <<>>)
            ELSE Single(get_namespace(W, instance, path))
    IN IF instance = None THEN Chain(W, <<>>)
       ELSE IF IsClass(instance) THEN _mro_to_chained(W, Mro(instance), dct)
       ELSE Own(Namespace_path(W, dct))

\* A faulty _instance_namespace: a Namespace is made for every instance.
_instance_namespace_made(W, instance, dct, name) ==
    LET Got(got) == [w |-> got.w, r |-> RNone, n |-> got.n]
        Own(path) ==
            IF path = PathError THEN [w |-> W, r |-> Raise("ValueError", <<>>), n |-> 0]
            ELSE Got(get_namespace(W, instance, path))
    IN Own(Namespace_path(W, dct))

\* _instance_namespace: [w, r, n]
_instance_namespace(W, instance, dct, name) ==
    LET Got(got) == [w |-> got.w, r |-> RNone, n |-> got.n]
        Own(path) ==
            IF path = PathError THEN [w |-> W, r |-> Raise("ValueError", <<>>), n |-> 0]
            ELSE IF ~weakrefable(instance)
            THEN [w |-> W, r |-> Raise("AttributeError", <<name>>), n |-> 0]
            ELSE Got(get_namespace(W, instance, path))
    IN Own(Namespace_path(W, dct))

\* mro.index(parent_object), 0 when it raises ValueError
mro_index(mro, parent_object) ==
    IF \E i \in 1..Len(mro) : mro[i] = parent_object
    THEN Min({i \in 1..Len(mro) : mro[i] = parent_object}) ELSE 0

\* A faulty _mro_map: the owner alone, without its bases.
_mro_map_owner(W, dct, owner) == _mro_to_chained(W, <<owner>>, dct)

\* _mro_map
_mro_map(W, dct, owner) ==
    LET From(mro, index) ==
            IF index = 0 THEN ChainErr(W, Raise("ValueError", <<"index">>))
            ELSE _mro_to_chained(W, SubSeq(mro, index, Len(mro)), dct)
    IN From(Mro(owner), mro_index(Mro(owner), W.heap[dct].parent_object))

\* A faulty _retarget: the class lookup is left as it is.
_retarget_kept(W, dct, instance, owner) ==
    [w |-> W, r |-> RNone, dct |-> dct, instance |-> instance, owner |-> owner]

\* _retarget: [w, r, dct, instance, owner]
_retarget(W, dct, instance, owner) ==
    LET Meta(got) ==
            [w |-> got.w, r |-> RNone, dct |-> got.n,
             instance |-> owner, owner |-> MetaOf(owner)]
        On(path) ==
            IF path = PathError
            THEN [w |-> W, r |-> Raise("ValueError", <<>>), dct |-> dct,
                  instance |-> instance, owner |-> owner]
            ELSE Meta(get_namespace(W, MetaOf(owner), path))
    IN IF instance = None /\ MetaOf(owner) # None THEN On(Namespace_path(W, dct))
       ELSE [w |-> W, r |-> RNone, dct |-> dct, instance |-> instance, owner |-> owner]

\* A faulty decision: the instance side's entry is preferred to a data
\* descriptor of the mro side.
resolve_instance_first(instance_value, mro_value, instance, owner, name) ==
    IF IsMeta(owner) /\ has_get(instance_value)
    THEN descriptor_get(instance_value, None, instance)
    ELSE IF instance_value # Absent THEN RValue(instance_value)
    ELSE IF has_get(mro_value) THEN descriptor_get(mro_value, instance, owner)
    ELSE IF mro_value # Absent THEN RValue(mro_value)
    ELSE Raise("AttributeError", <<name>>)

\* A faulty decision: the instance side's entry is returned as it is, also
\* for a class of classes.
resolve_raw_first(instance_value, mro_value, instance, owner, name) ==
    IF is_data(mro_value) /\ has_get(mro_value)
    THEN descriptor_get(mro_value, instance, owner)
    ELSE IF instance_value # Absent THEN RValue(instance_value)
    ELSE IF has_get(mro_value) THEN descriptor_get(mro_value, instance, owner)
    ELSE IF mro_value # Absent THEN RValue(mro_value)
    ELSE Raise("AttributeError", <<name>>)

\* The decision of _NamespaceProxy.__getattribute__, given the two values.
resolve(instance_value, mro_value, instance, owner, name) ==
    IF is_data(mro_value) /\ has_get(mro_value)
    THEN descriptor_get(mro_value, instance, owner)
    ELSE IF IsMeta(owner) /\ has_get(instance_value)
    THEN descriptor_get(instance_value, None, instance)
    ELSE IF instance_value # Absent THEN RValue(instance_value)
    ELSE IF has_get(mro_value) THEN descriptor_get(mro_value, instance, owner)
    ELSE IF mro_value # Absent THEN RValue(mro_value)
    ELSE Raise("AttributeError", <<name>>)

\* instance_value and mro_value of _NamespaceProxy.__getattribute__
proxy_values(W, instance_chain, mro_chain, name) ==
    [instance |-> ops_get(W, instance_chain, name), mro |-> ops_get(W, mro_chain, name)]

\* _NamespaceProxy.__getattribute__
Proxy__getattribute__(W, dct, instance, owner, name) ==
    LET Resolved(self, values) ==
            resolve(values.instance, values.mro, self.instance, self.owner, name)
        Decide(self, instance_map, mro_map) ==
            IF IsErr(mro_map.r) THEN Out(mro_map.w, mro_map.r)
            ELSE Out(mro_map.w,
                     Resolved(self, proxy_values(mro_map.w, instance_map.chain,
                                                 mro_map.chain, name)))
        Mro_(self, instance_map) ==
            IF IsErr(instance_map.r) THEN Out(instance_map.w, instance_map.r)
            ELSE Decide(self, instance_map, _mro_map(instance_map.w, self.dct, self.owner))
        Instance(self) ==
            IF IsErr(self.r) THEN Out(self.w, self.r)
            ELSE Mro_(self, _instance_map(self.w, self.dct, self.instance))
    IN Instance(_retarget(W, dct, instance, owner))

\* _NamespaceProxy.__setattr__
Proxy__setattr__(W, dct, instance, owner, name, value) ==
    LET Store(target) ==
            IF IsErr(target.r) THEN Out(target.w, target.r)
            ELSE Namespace__setitem__(target.w, target.n, name, value)
        Data(self, W1, target_value) ==
            IF target_value # Absent
            THEN Out(W1, descriptor_set(target_value, self.instance, value))
            ELSE Store(_instance_namespace(W1, self.instance, self.dct, name))
        Mro_(self, mro_map) ==
            IF IsErr(mro_map.r) THEN Out(mro_map.w, mro_map.r)
            ELSE Data(self, mro_map.w, get_data(mro_map.w, mro_map.chain, name))
        Real(real_map) == Namespace__setitem__(real_map.w, real_map.n, name, value)
        Class(self, path) ==
            IF path = PathError THEN Out(self.w, Raise("ValueError", <<>>))
            ELSE Real(get_namespace(self.w, self.owner, path))
        Retargeted(self) ==
            IF IsErr(self.r) THEN Out(self.w, self.r)
            ELSE IF self.instance = None THEN Class(self, Namespace_path(self.w, self.dct))
            ELSE Mro_(self, _mro_map(self.w, self.dct, self.owner))
    IN Retargeted(_retarget(W, dct, instance, owner))

\* A faulty __delattr__: without a descriptor, the instance delete removes
\* the entry of the owner class.
Proxy__delattr__real(W, dct, instance, owner, name) ==
    LET Data(self, real_map, target_value) ==
            IF self.instance # None /\ target_value # Absent
            THEN Out(real_map.w, descriptor_delete(target_value, self.instance))
            ELSE ops_delete(real_map.w, real_map.n, name)
        Real(self, real_map) ==
            Data(self, real_map, get_data(real_map.w, <<real_map.n>>, name))
        Path(self, path) ==
            IF path = PathError THEN Out(self.w, Raise("ValueError", <<>>))
            ELSE Real(self, get_namespace(self.w, self.owner, path))
        Retargeted(self) ==
            IF IsErr(self.r) THEN Out(self.w, self.r)
            ELSE Path(self, Namespace_path(self.w, self.dct))
    IN Retargeted(_retarget(W, dct, instance, owner))

\* _NamespaceProxy.__delattr__
Proxy__delattr__(W, dct, instance, owner, name) ==
    LET Delete(target) ==
            IF IsErr(target.r) THEN Out(target.w, target.r)
            ELSE ops_delete(target.w, target.n, name)
        Data(self, real_map, target_value) ==
            IF self.instance = None THEN ops_delete(real_map.w, real_map.n, name)
            ELSE IF target_value # Absent
            THEN Out(real_map.w, descriptor_delete(target_value, self.instance))
            ELSE Delete(_instance_namespace(real_map.w, self.instance, self.dct, name))
        Real(self, real_map) ==
            Data(self, real_map, get_data(real_map.w, <<real_map.n>>, name))
        Path(self, path) ==
            IF path = PathError THEN Out(self.w, Raise("ValueError", <<>>))
            ELSE Real(self, get_namespace(self.w, self.owner, path))
        Retargeted(self) ==
            IF IsErr(self.r) THEN Out(self.w, self.r)
            ELSE Path(self, Namespace_path(self.w, self.dct))
    IN Retargeted(_retarget(W, dct, instance, owner))

-----------------------------------------------------------------------------
(* Attribute access on classes and instances.                              *)

ClassObj(c) == Value("cls", c, 0, <<0, 0>>)
InstanceObj(i) == Value("inst", i, 0, <<0, 0>>)
TargetObj(t) == IF IsClass(t) THEN ClassObj(t) ELSE InstanceObj(t)

\* The first entry for name in the attribute tables along an mro.
type_lookup(W, mro, name) ==
    LET hits == {i \in 1..Len(mro) : W.clsvars[mro[i]][name] # Absent} IN
    IF hits = {} THEN Absent ELSE W.clsvars[mro[Min(hits)]][name]

\* type.__getattribute__(cls, name), which NamespaceableMeta.__getattribute__
\* falls back to: the host language's lookup on a class.
type__getattribute__(W, c, name) ==
    LET meta_attr == IF MetaOf(c) = None THEN Absent
                     ELSE type_lookup(W, Mro(MetaOf(c)), name)
        attr == type_lookup(W, Mro(c), name)
    IN IF has_get(meta_attr) /\ is_data(meta_attr)
       THEN descriptor_get(meta_attr, c, MetaOf(c))
       ELSE IF has_get(attr) THEN descriptor_get(attr, None, c)
       ELSE IF attr # Absent THEN RValue(attr)
       ELSE IF has_get(meta_attr) THEN descriptor_get(meta_attr, c, MetaOf(c))
       ELSE IF meta_attr # Absent THEN RValue(meta_attr)
       ELSE Raise("AttributeError", <<name>>)

\* object.__getattribute__(instance, name): the host language's lookup on an
\* instance, whose own __dict__ holds none of the names of the model.
object__getattribute__(W, i, name) ==
    LET attr == type_lookup(W, Mro(InstClass(i)), name) IN
    IF has_get(attr) THEN descriptor_get(attr, i, InstClass(i))
    ELSE IF attr # Absent THEN RValue(attr)
    ELSE Raise("AttributeError", <<name>>)

\* type.__setattr__(cls, name, value)
type__setattr__(W, c, name, value) ==
    LET meta_attr == IF MetaOf(c) = None THEN Absent
                     ELSE type_lookup(W, Mro(MetaOf(c)), name)
    IN IF is_data(meta_attr) THEN Out(W, descriptor_set(meta_attr, c, value))
       ELSE Out([W EXCEPT !.clsvars[c][name] = value], RNone)

\* type.__delattr__(cls, name)
type__delattr__(W, c, name) ==
    LET meta_attr == IF MetaOf(c) = None THEN Absent
                     ELSE type_lookup(W, Mro(MetaOf(c)), name)
    IN IF is_data(meta_attr) THEN Out(W, descriptor_delete(meta_attr, c))
       ELSE IF W.clsvars[c][name] = Absent THEN Out(W, Raise("AttributeError", <<name>>))
       ELSE Out([W EXCEPT !.clsvars[c][name] = Absent], RNone)


RECURSIVE getattr(_, _, _)
RECURSIVE walk_elements(_, _, _)

\* NamespaceableMeta.__is_proxy inside the loop over parent.split('.'):
\* [w, r, obj]
walk_elements(W, obj, elements) ==
    LET Step(got) ==
            IF IsErr(got.r) THEN [w |-> got.w, r |-> got.r, obj |-> obj]
            ELSE IF got.r.t # "proxy"
            THEN [w |-> got.w, obj |-> obj,
                  r |-> Raise("ValueError: Given a dot attribute that went too deep.", <<>>)]
            ELSE walk_elements(got.w, got.r.val, Tail(elements))
    IN IF elements = <<>> THEN [w |-> W, r |-> RNone, obj |-> obj]
       ELSE Step(getattr(W, obj, <<Head(elements)>>))

\* A faulty __getattribute__: a dotted name is looked up as one name, as
\* type.__getattribute__ does.
NamespaceableMeta__getattribute__whole(W, c, name) ==
    IF Len(name) > 1 THEN Out(W, Raise("AttributeError", name))
    ELSE Out(W, type__getattribute__(W, c, name[1]))

\* NamespaceableMeta.__getattribute__
NamespaceableMeta__getattribute__(W, c, name) ==
    LET Final(cls_) ==
            IF IsErr(cls_.r) THEN Out(cls_.w, cls_.r)
            ELSE getattr(cls_.w, cls_.obj, <<Last(name)>>)
    IN IF Len(name) > 1 THEN Final(walk_elements(W, ClassObj(c), Front(name)))
       ELSE Out(W, type__getattribute__(W, c, name[1]))

\* getattr(obj, name) for a class, an instance or a runtime proxy; name is
\* the sequence of the segments of the string given.
getattr(W, obj, name) ==
    IF obj.t = "cls" THEN NamespaceableMeta__getattribute__(W, obj.v, name)
    ELSE IF Len(name) > 1 THEN Out(W, Raise("AttributeError", name))
    ELSE IF obj.t = "inst" THEN Out(W, object__getattribute__(W, obj.v, name[1]))
    ELSE IF obj.t = "proxy"
    THEN Proxy__getattribute__(W, obj.v, obj.o[1], obj.o[2], name[1])
    ELSE Out(W, Raise("AttributeError", name))

\* setattr(obj, name, value) for a runtime proxy
setattr_proxy(W, obj, name, value) ==
    Proxy__setattr__(W, obj.v, obj.o[1], obj.o[2], name, value)

\* delattr(obj, name) for a runtime proxy
delattr_proxy(W, obj, name) ==
    Proxy__delattr__(W, obj.v, obj.o[1], obj.o[2], name)

\* A faulty parent lookup: only the first segment of the dotted parent is
\* followed.
parent_proxy_first(W, c, parent) ==
    LET Checked(got) ==
            IF IsErr(got.r) THEN [w |-> got.w, r |-> got.r, obj |-> Absent]
            ELSE IF got.r.t # "proxy"
            THEN [w |-> got.w, obj |-> Absent,
                  r |-> Raise("ValueError: Given a dot attribute that went too deep.", <<>>)]
            ELSE [w |-> got.w, r |-> RNone, obj |-> got.r.val]
    IN Checked(getattr(W, ClassObj(c), <<Head(parent)>>))

\* getattr(cls, parent) checked by NamespaceableMeta.__is_proxy: [w, r, obj]
parent_proxy(W, c, parent) ==
    LET Checked(got) ==
            IF IsErr(got.r) THEN [w |-> got.w, r |-> got.r, obj |-> Absent]
            ELSE IF got.r.t # "proxy"
            THEN [w |-> got.w, obj |-> Absent,
                  r |-> Raise("ValueError: Given a dot attribute that went too deep.", <<>>)]
            ELSE [w |-> got.w, r |-> RNone, obj |-> got.r.val]
    IN Checked(getattr(W, ClassObj(c), parent))

\* NamespaceableMeta.__setattr__, after the bind of a bare Namespace
setattr_tail(W, c, name, value) ==
    LET On(parent) ==
            IF IsErr(parent.r) THEN Out(parent.w, parent.r)
            ELSE setattr_proxy(parent.w, parent.obj, Last(name), value)
    IN IF Len(name) > 1 THEN On(parent_proxy(W, c, Front(name)))
       ELSE type__setattr__(W, c, name[1], value)

\* NamespaceableMeta.__setattr__
NamespaceableMeta__setattr__(W, c, name, value) ==
    LET Added(added) ==
            IF IsErr(added.r) THEN added ELSE setattr_tail(added.w, c, name, value)
        Pushed(pushed) ==
            IF IsErr(pushed.r) THEN pushed ELSE Added(add(pushed.w, value.v, c))
    IN IF Len(name) = 1 /\ IsNamespace(value) /\ W.heap[value.v].name # name[1]
       THEN Pushed(push(W, value.v, name[1], c, scope_head(W, c)))
       ELSE setattr_tail(W, c, name, value)

\* NamespaceableMeta.__delattr__
NamespaceableMeta__delattr__(W, c, name) ==
    LET On(parent) ==
            IF IsErr(parent.r) THEN Out(parent.w, parent.r)
            ELSE delattr_proxy(parent.w, parent.obj, Last(name))
    IN IF Len(name) > 1 THEN On(parent_proxy(W, c, Front(name)))
       ELSE type__delattr__(W, c, name[1])

\* The attribute expression target.a.b: one getattr per name.  [w, r, obj]
RECURSIVE attribute_walk(_, _, _)
attribute_walk(W, obj, names) ==
    LET Step(got) ==
            IF IsErr(got.r) THEN [w |-> got.w, r |-> got.r, obj |-> obj]
            ELSE IF Len(names) = 1 THEN [w |-> got.w, r |-> got.r, obj |-> got.r.val]
            ELSE attribute_walk(got.w, got.r.val, Tail(names))
    IN IF names = <<>> THEN [w |-> W, r |-> RNone, obj |-> obj]
       ELSE Step(getattr(W, obj, <<Head(names)>>))

\* target.a.b.name
attribute_get(W, target, names) ==
    LET Got(walked) == Out(walked.w, walked.r)
    IN Got(attribute_walk(W, TargetObj(target), names))

\* target.a.b.name = value, through the proxy that target.a.b evaluates to
attribute_set(W, target, names, value) ==
    LET On(walked) ==
            IF IsErr(walked.r) THEN Out(walked.w, walked.r)
            ELSE IF walked.obj.t = "cls"
            THEN NamespaceableMeta__setattr__(walked.w, walked.obj.v, <<Last(names)>>, value)
            ELSE IF walked.obj.t = "proxy"
            THEN setattr_proxy(walked.w, walked.obj, Last(names), value)
            ELSE Out(walked.w, Raise("AttributeError", <<Last(names)>>))
    IN On(attribute_walk(W, TargetObj(target), Front(names)))

\* del target.a.b.name
attribute_del(W, target, names) ==
    LET On(walked) ==
            IF IsErr(walked.r) THEN Out(walked.w, walked.r)
            ELSE IF walked.obj.t = "cls"
            THEN NamespaceableMeta__delattr__(walked.w, walked.obj.v, <<Last(names)>>)
            ELSE IF walked.obj.t = "proxy"
            THEN delattr_proxy(walked.w, walked.obj, Last(names))
            ELSE Out(walked.w, Raise("AttributeError", <<Last(names)>>))
    IN On(attribute_walk(W, TargetObj(target), Front(names)))

-----------------------------------------------------------------------------
(* The statements of a class body, run against the scope of class c.       *)
(* blocks[c] lists the open `with` blocks, innermost first: the Namespace  *)
(* whose __exit__ the block will call and the depth of the overlay stack   *)
(* when the block was entered.                                             *)

Block(W, c, n) == [ns |-> n, depth |-> Len(W.dicts[c])]

\* Leaving a `with` block: __exit__ of its context manager (for a scope
\* proxy, _ScopeProxy.__exit__ forwards to the Namespace).
block_exit(W, c) ==
    LET Left(exited) == Out([exited.w EXCEPT !.blocks[c] = Tail(@)], exited.r)
    IN Left(Namespace__exit__(W, Head(W.blocks[c]).ns))

\* An exception r raised inside the innermost block: __exit__ runs, and its
\* own exception, if any, replaces r.
leave_on_error(W, c, r) ==
    LET Left(exited) == IF IsErr(exited.r) THEN exited ELSE Out(exited.w, r)
    IN Left(block_exit(W, c))

\* The `as` clause of a with statement whose context manager, Namespace n,
\* has been entered in world W: the block is open when the name is bound.
with_bind(W, c, n, askey, entered) ==
    LET Bound(bound) ==
            IF IsErr(bound.r) THEN leave_on_error(bound.w, c, bound.r) ELSE bound
        Open(W2) ==
            IF askey = NoneName THEN Out(W2, RNone)
            ELSE Bound(Scope__setitem__(W2, c, <<askey>>, NsVal(n)))
    IN IF IsErr(entered.r) THEN entered
       ELSE Open([entered.w EXCEPT !.blocks[c] = <<Block(W, c, n)>> \o @])

\* with Namespace() as key:
with_new(W, c, key) ==
    with_bind(W, c, Len(W.heap) + 1, key,
              Namespace__enter__([W EXCEPT !.heap = Append(@, NewNamespace)],
                                 Len(W.heap) + 1))

\* with key:  (askey = NoneName)   and   with key as askey:
with_resume(W, c, key, askey) ==
    LET Enter(looked) ==
            IF IsErr(looked) THEN Out(W, Raise("NameError", <<key>>))
            ELSE IF looked.val.t # "sproxy"
            THEN Out(W, Raise("AttributeError", <<"__enter__">>))
            ELSE with_bind(W, c, looked.val.v, askey, Namespace__enter__(W, looked.val.v))
    IN Enter(Scope__getitem__(W, c, <<key>>))

\* key  (a read of a name in the class body)
body_read(W, c, key) ==
    LET Read(looked) == IF IsErr(looked) THEN Raise("NameError", <<key>>) ELSE looked
    IN Read(Scope__getitem__(W, c, <<key>>))

\* key = value
body_assign(W, c, key, value) == Scope__setitem__(W, c, <<key>>, value)

\* key = src  (the value read from another name of the body)
body_copy(W, c, key, src) ==
    LET Copy(looked) ==
            IF IsErr(looked) THEN Out(W, looked)
            ELSE Scope__setitem__(W, c, <<key>>, looked.val)
    IN Copy(body_read(W, c, src))

\* del key
body_del(W, c, key) ==
    LET Deleted(deleted) ==
            IF IsErr(deleted.r) THEN Out(deleted.w, Raise("NameError", <<key>>))
            ELSE deleted
    IN Deleted(Scope__delitem__(W, c, <<key>>))

\* The end of the class body: NamespaceableMeta.__new__ builds the class.
end_body(W, c) == NamespaceableMeta__new__(W, c)

\* One statement of a scripted class body.
Stmt(k, key, value) == [k |-> k, key |-> key, value |-> value]
exec_stmt(W, c, stmt) ==
    IF stmt.k = "with" THEN with_new(W, c, stmt.key)
    ELSE IF stmt.k = "resume" THEN with_resume(W, c, stmt.key, NoneName)
    ELSE IF stmt.k = "exit" THEN block_exit(W, c)
    ELSE IF stmt.k = "del" THEN body_del(W, c, stmt.key)
    ELSE body_assign(W, c, stmt.key, stmt.value)

\* An exception leaves the class body: every open block is exited.
RECURSIVE unwind(_, _, _)
unwind(W, c, r) ==
    LET Next_(left) == unwind(left.w, c, left.r)
    IN IF W.blocks[c] = <<>> THEN Out([W EXCEPT !.phase[c] = "failed"], r)
       ELSE Next_(leave_on_error(W, c, r))

RECURSIVE exec_body(_, _, _)
exec_body(W, c, script) ==
    LET Done(done) ==
            IF IsErr(done.r) THEN unwind(done.w, c, done.r)
            ELSE exec_body(done.w, c, Tail(script))
    IN IF script = <<>> THEN end_body(W, c) ELSE Done(exec_stmt(W, c, Head(script)))

\* class c(bases): <script>
class_statement(W, c, script) ==
    exec_body(NamespaceableMeta__prepare__(W, c), c, script)

\* The class bodies of the tests, by kind:
\*   "ns":      with Namespace() as ns: key = value
\*   "nested":  with Namespace() as ns: with Namespace() as ns: key = value
\*   "plain":   key = value
\*   "empty":   pass
Body(kind, key, value) ==
    CASE kind = "ns" ->
            <<Stmt("with", "ns", Absent), Stmt("assign", key, value),
              Stmt("exit", NoneName, Absent)>>
      [] kind = "nested" ->
            <<Stmt("with", "ns", Absent), Stmt("with", "ns", Absent),
              Stmt("assign", key, value),
              Stmt("exit", NoneName, Absent), Stmt("exit", NoneName, Absent)>>
      [] kind = "plain" -> <<Stmt("assign", key, value)>>
      [] kind = "empty" -> <<>>

\* The value a dict holds under a dotted key, looked up segment by segment
\* through the Namespaces it holds; Absent when there is none.
RECURSIVE Entry(_, _, _)
Entry(W, items, p) ==
    IF Len(p) = 1 THEN items[p[1]]
    ELSE IF IsNamespace(items[p[1]])
    THEN Entry(W, W.heap[items[p[1]].v].items, Tail(p))
    ELSE Absent

-----------------------------------------------------------------------------
(* The state machine: one action per operation.                            *)

Op(k, target, path, value, aux) ==
    [k |-> k, target |-> target, path |-> path, value |-> value, aux |-> aux]

Init ==
    /\ heap = <<>>
    /\ dicts = [c \in AllClasses |-> <<Base(c)>>]
    /\ namespaces = [c \in AllClasses |-> <<>>]
    /\ finalized = [c \in AllClasses |-> FALSE]
    /\ head = [c \in AllClasses |-> EmptyItems]
    /\ clsvars = [c \in AllClasses |-> EmptyItems]
    /\ phase = [c \in AllClasses |-> "none"]
    /\ blocks = [c \in AllClasses |-> <<>>]
    /\ Namespace__namespaces = {}
    /\ NAMESPACE_INFOS = [i \in AllInstances |-> {}]
    /\ set_name_calls = <<>>
    /\ steps = 0
    /\ stmts = 0
    /\ op = Op("init", 0, <<>>, Absent, "")
    /\ ret = RNone

\* The operation leaves world out.w and returns or raises out.r.
Effect(out, o) ==
    /\ Len(out.w.heap) <= MaxNs
    /\ heap' = out.w.heap
    /\ dicts' = out.w.dicts
    /\ namespaces' = out.w.namespaces
    /\ finalized' = out.w.finalized
    /\ head' = out.w.head
    /\ clsvars' = out.w.clsvars
    /\ phase' = out.w.phase
    /\ blocks' = out.w.blocks
    /\ Namespace__namespaces' = out.w.reg
    /\ NAMESPACE_INFOS' = out.w.infos
    /\ set_name_calls' = out.w.calls
    /\ op' = o
    /\ ret' = out.r

\* A runtime operation, or a whole class statement.
Commit(out, o) ==
    /\ steps < MaxSteps
    /\ Effect(out, o)
    /\ steps' = steps + 1
    /\ UNCHANGED stmts

\* One statement of a class body.
CommitStmt(out, o) ==
    /\ stmts < MaxStmts
    /\ Effect(out, o)
    /\ stmts' = stmts + 1
    /\ UNCHANGED steps

\* A class statement can start once its bases and its metaclass exist and no
\* other class body is running.
CanDefine(c) ==
    /\ phase[c] = "none"
    /\ \A b \in AllClasses : phase[b] # "body"
    /\ \A i \in 1..Len(Mro(c)) : Mro(c)[i] = c \/ phase[Mro(c)[i]] = "created"
    /\ MetaOf(c) # None => phase[MetaOf(c)] = "created"

Exists(target) ==
    IF IsClass(target) THEN phase[target] = "created"
    ELSE phase[InstClass(target)] = "created"

BeginClass(c) ==
    /\ CanDefine(c)
    /\ CommitStmt(Out(NamespaceableMeta__prepare__(World, c), RNone),
              Op("class", c, <<>>, Absent, ""))

WithNew(c, key) ==
    /\ phase[c] = "body"
    /\ CommitStmt(with_new(World, c, key), Op("with", c, <<key>>, Absent, ""))

WithResume(c, key, askey) ==
    /\ phase[c] = "body"
    /\ CommitStmt(with_resume(World, c, key, askey),
              Op("resume", c, <<key>>, Absent, askey))

BlockExit(c) ==
    /\ phase[c] = "body"
    /\ blocks[c] # <<>>
    /\ CommitStmt(block_exit(World, c), Op("exit", c, <<>>, Absent, ""))

BodyAssign(c, key, value) ==
    /\ phase[c] = "body"
    /\ CommitStmt(body_assign(World, c, key, value), Op("assign", c, <<key>>, value, ""))

\* key = raw, where the program holds the Namespace object n as raw
BodyBind(c, key, n) ==
    /\ n \in 1..Len(heap)
    /\ BodyAssign(c, key, NsVal(n))

BodyCopy(c, key, src) ==
    /\ phase[c] = "body"
    /\ CommitStmt(body_copy(World, c, key, src), Op("copy", c, <<key>>, Absent, src))

BodyDel(c, key) ==
    /\ phase[c] = "body"
    /\ CommitStmt(body_del(World, c, key), Op("del", c, <<key>>, Absent, ""))

BodyRead(c, key) ==
    /\ phase[c] = "body"
    /\ CommitStmt(Out(World, body_read(World, c, key)), Op("read", c, <<key>>, Absent, ""))

EndClass(c) ==
    /\ phase[c] = "body"
    /\ blocks[c] = <<>>
    /\ Effect(end_body(World, c), Op("new", c, <<>>, Absent, ""))
    /\ UNCHANGED <<steps, stmts>>

\* class c(bases): <the body of the given kind>
ClassStatement(c, kind, key, value) ==
    /\ CanDefine(c)
    /\ Commit(class_statement(World, c, Body(kind, key, value)),
              Op("classdef", c, <<key>>, value, kind))

\* target.a.b.name
AttrGet(target, path) ==
    /\ Exists(target)
    /\ Commit(attribute_get(World, target, path), Op("get", target, path, Absent, ""))

\* target.a.b.name = value
AttrSet(target, path, value) ==
    /\ Exists(target)
    /\ Commit(attribute_set(World, target, path, value),
              Op("set", target, path, value, ""))

\* del target.a.b.name
AttrDel(target, path) ==
    /\ Exists(target)
    /\ Commit(attribute_del(World, target, path), Op("delete", target, path, Absent, ""))

\* getattr(cls, 'a.b.name')
DottedGet(c, name) ==
    /\ Exists(c)
    /\ Commit(NamespaceableMeta__getattribute__(World, c, name),
              Op("getattr", c, name, Absent, ""))

\* setattr(cls, 'a.b.name', value)
DottedSet(c, name, value) ==
    /\ Exists(c)
    /\ Commit(NamespaceableMeta__setattr__(World, c, name, value),
              Op("setattr", c, name, value, ""))

\* delattr(cls, 'a.b.name')
DottedDel(c, name) ==
    /\ Exists(c)
    /\ Commit(NamespaceableMeta__delattr__(World, c, name),
              Op("delattr", c, name, Absent, ""))

\* Namespace.get_namespace(target, path)
GetNamespace(target, path) ==
    /\ Exists(target)
    /\ LET Got(got) == Out(got.w, RValue(NsVal(got.n))) IN
       Commit(Got(get_namespace(World, target, path)),
              Op("get_namespace", target, path, Absent, ""))

\* namespace.path, for a Namespace object the program holds
NamespacePath(n) ==
    /\ n \in 1..Len(heap)
    /\ Commit(Out(World, IF Namespace_path(World, n) = PathError
                        THEN Raise("ValueError", <<>>)
                        ELSE RKeys(Namespace_path(World, n))),
              Op("path", n, <<>>, Absent, ""))

\* Namespace.get_namespace(target, path)[name] = value
NamespaceStore(target, path, name, value) ==
    /\ Exists(target)
    /\ LET Store(got) == Namespace__setitem__(got.w, got.n, name, value) IN
       Commit(Store(get_namespace(World, target, path)),
              Op("store", target, path \o <<name>>, value, ""))

\* cls.name = Namespace()
AddLater(c, name) ==
    /\ Exists(c)
    /\ Commit(NamespaceableMeta__setattr__(
                  [World EXCEPT !.heap = Append(@, NewNamespace)], c, <<name>>,
                  NsVal(Len(heap) + 1)),
              Op("add", c, <<name>>, NsVal(Len(heap) + 1), ""))

\* cls.name = Namespace()  and  cls.a.b.name = Namespace()
AssignNamespace(c, path) ==
    /\ Exists(c)
    /\ Commit(attribute_set([World EXCEPT !.heap = Append(@, NewNamespace)], c, path,
                            NsVal(Len(heap) + 1)),
              Op("set", c, path, NsVal(Len(heap) + 1), ""))

\* cls.a.b.name = Namespace(), where cls.a.b holds no name yet
AddNested(c, path) ==
    /\ Entry(World, clsvars[c], path) = Absent
    /\ AssignNamespace(c, path)

\* The record of a call n.push(name, scope, parent): the scope as target, the
\* parent mapping as aux (its kind) and value.o[1] (its identity).
PushOp(n, name, scope, parent) ==
    Op("push", scope, <<name>>, Value("ns", n, 1, <<parent[2], 0>>), parent[1])
PushedParent(o) == <<o.aux, o.value.o[1]>>

\* The mappings a Namespace can be given as parent: the basal dict of a
\* scope, or a Namespace.
Mappings(W) == {Base(c) : c \in {c \in AllClasses : W.phase[c] # "none"}}
                   \cup {Ns(k) : k \in 1..Len(W.heap)}

\* namespace.push(name, scope, parent), called on Namespace n.  Direct calls
\* of the methods of a Namespace and of the stack methods of a scope are
\* among the first MaxCalls operations of a behaviour.
Push(n, name, scope, parent) ==
    /\ steps < MaxCalls
    /\ n \in 1..Len(heap)
    /\ phase[scope] # "none"
    /\ parent \in Mappings(World)
    /\ Commit(push(World, n, name, scope, parent), PushOp(n, name, scope, parent))

\* namespace.activate(), called on Namespace n
Activate(n) ==
    /\ steps < MaxCalls
    /\ n \in 1..Len(heap)
    /\ Commit(activate(World, n), Op("activate", heap[n].scope, <<>>, NsVal(n), ""))

\* namespace.deactivate(), called on Namespace n
Deactivate(n) ==
    /\ steps < MaxCalls
    /\ n \in 1..Len(heap)
    /\ Commit(deactivate(World, n), Op("deactivate", heap[n].scope, <<>>, NsVal(n), ""))

\* scope.finalize(), scope.push(dct) and scope.pop_(), called on the scope of
\* class c, which a program gets from a Namespace of the class.  What is
\* pushed on a scope that takes it is a Namespace; test_finalization gives
\* None to a finalized one.
ScopeFinalize(c) ==
    /\ steps < MaxCalls
    /\ phase[c] # "none"
    /\ Commit(finalize(World, c), Op("finalize", c, <<>>, Absent, ""))

ScopePush(c, ref) ==
    /\ steps < MaxCalls
    /\ phase[c] # "none"
    /\ IF ref = NoneRef THEN finalized[c] ELSE ref[2] \in 1..Len(heap)
    /\ Commit(scope_push(World, c, ref), Op("scope_push", c, <<>>, MapVal(ref), ""))

ScopePop(c) ==
    /\ steps < MaxCalls
    /\ phase[c] # "none"
    /\ Commit(scope_pop_(World, c), Op("pop_", c, <<>>, Absent, ""))

\* len(scope), list(scope), scope[key], scope[key] = value and del scope[key]
\* on the scope of class c; key is a name or a dotted name.  A dotted string
\* given to a scope that is not finalized is one key with a dot in it, which
\* no name of the model is.
ScopeLen(c) ==
    /\ phase[c] # "none"
    /\ Commit(Out(World, Scope__len__(World, c)), Op("len", c, <<>>, Absent, ""))

ScopeIter(c) ==
    /\ phase[c] # "none"
    /\ Commit(Out(World, Scope__iter__(World, c)), Op("iter", c, <<>>, Absent, ""))

ScopeGet(c, key) ==
    /\ phase[c] # "none"
    /\ Len(key) > 1 => finalized[c]
    /\ Commit(Out(World, Scope__getitem__(World, c, key)),
              Op("getitem", c, key, Absent, ""))

ScopeSet(c, key, value) ==
    /\ phase[c] # "none"
    /\ Len(key) > 1 => finalized[c]
    /\ Commit(Scope__setitem__(World, c, key, value), Op("setitem", c, key, value, ""))

ScopeDel(c, key) ==
    /\ phase[c] # "none"
    /\ Len(key) > 1 => finalized[c]
    /\ Commit(Scope__delitem__(World, c, key), Op("delitem", c, key, Absent, ""))

\* What a program holds of a bound Namespace n: the object itself ("ns"),
\* the runtime proxy Class.ns of the class it is registered for ("proxy"),
\* or the construction-time proxy its scope hands out ("sproxy").
Held(W, kind, n) ==
    CASE kind = "ns" -> NsVal(n)
      [] kind = "proxy" -> NamespaceProxy(n, None, W.heap[n].parent_object)
      [] kind = "sproxy" -> ScopeProxy(n, W.heap[n].scope)

\* Namespace n was bound in the scope of a class other than c, and the kind
\* of reference exists for it.
CanCarry(kind, n, c) ==
    /\ n \in 1..Len(heap)
    /\ heap[n].scope \in AllClasses \ {c}
    /\ kind = "proxy" => heap[n].parent_object # None

\* key = <what is held of Namespace n of another class>  in the body of c
BodyStore(c, key, kind, n) ==
    /\ CanCarry(kind, n, c)
    /\ BodyAssign(c, key, Held(World, kind, n))

\* target.a.b.name = <what is held of Namespace n of another class>
StoreLater(c, path, kind, n) ==
    /\ CanCarry(kind, n, c)
    /\ AttrSet(c, path, Held(World, kind, n))

\* cls.name = ns, for the Namespace object n of another class
Reassign(c, name, n) ==
    /\ CanCarry("ns", n, c)
    /\ DottedSet(c, <<name>>, NsVal(n))

-----------------------------------------------------------------------------
(* SpecBody: the body of class Test, statement by statement, then reads    *)
(* through the class and an instance.                                      *)

BodyValues == {Val(1), Val(2)}
BodyPaths == {<<"ns", "m">>, <<"ns", "ns", "m">>}

NextBody ==
    \/ BeginClass(1)
    \/ WithNew(1, "ns")
    \/ \E askey \in {NoneName, "ns"} : WithResume(1, "ns", askey)
    \/ BlockExit(1)
    \/ \E value \in BodyValues : BodyAssign(1, "m", value)
    \/ BodyDel(1, "m")
    \/ BodyRead(1, "m")
    \/ EndClass(1)
    \/ \E target \in {1, 11}, path \in BodyPaths : AttrGet(target, path)

SpecBody == Init /\ [][NextBody]_vars

-----------------------------------------------------------------------------
(* SpecDescriptor: class Test with one Namespace ns holding m, and reads,  *)
(* writes and deletes of ns.m through the class and through an instance.   *)
(* Desc(n, h): 1 a function, 3 a property with getter and setter, 2 only a *)
(* setter, 4 only a deleter.                                               *)

DescriptorMembers == {Val(1), Desc(1, 1), Desc(2, 3), Desc(3, 2), Desc(4, 4)}
DescriptorValues == {Val(2), Desc(2, 3), Desc(3, 2)}

NextDescriptor ==
    \/ \E value \in DescriptorMembers : ClassStatement(1, "ns", "m", value)
    \/ \E target \in {1, 11} : AttrGet(target, <<"ns", "m">>)
    \/ \E target \in {1, 11}, value \in DescriptorValues :
           AttrSet(target, <<"ns", "m">>, value)
    \/ \E target \in {1, 11} : AttrDel(target, <<"ns", "m">>)
    \/ NamespaceStore(11, <<"ns">>, "m", Val(3))

SpecDescriptor == Init /\ [][NextDescriptor]_vars

-----------------------------------------------------------------------------
(* SpecDotted: class Test with nested Namespaces, the dotted forms of      *)
(* getattr, setattr and delattr, direct calls of get_namespace, and a      *)
(* Namespace added to the class after its creation.                        *)

DottedNames == {<<"ns", "m">>, <<"ns", "ns", "m">>, <<"x", "m">>}
RegistryPaths == {<<"ns">>, <<"ns", "ns">>, <<"x">>}

NextDotted ==
    \/ \E kind \in {"ns", "nested"} : ClassStatement(1, kind, "m", Val(1))
    \/ \E name \in DottedNames : DottedGet(1, name)
    \/ \E name \in DottedNames : DottedSet(1, name, Val(2))
    \/ \E name \in DottedNames : DottedDel(1, name)
    \/ \E target \in {1, 11}, path \in RegistryPaths : GetNamespace(target, path)
    \/ AddLater(1, "x")
    \/ AttrSet(11, <<"ns", "m">>, Val(3))
    \/ AttrDel(11, <<"ns", "m">>)
    \/ \E target \in {1, 11} : AttrGet(target, <<"ns", "m">>)

SpecDotted == Init /\ [][NextDotted]_vars

-----------------------------------------------------------------------------
(* SpecInherit: Test, Subclass(Test), DoubleSubclass(Subclass), Test2 and  *)
(* Test3(Test2, Test), each with a body of its own, and reads through the  *)
(* classes and their instances.  Every class writes a value of its own, so *)
(* a value read tells which class it came from.                            *)

InheritNames == {"m", "x"}
InheritPaths == {<<"ns", "m">>, <<"ns", "x">>, <<"ns", "ns", "m">>, <<"ns", "ns", "x">>}

NextInherit ==
    \/ \E kind \in {"ns", "nested"} : ClassStatement(1, kind, "m", Val(1))
    \/ \E kind \in {"ns", "nested"}, key \in InheritNames :
           ClassStatement(2, kind, key, Val(2))
    \/ ClassStatement(2, "plain", "ns", Val(2))
    \/ \E key \in InheritNames : ClassStatement(3, "ns", key, Val(3))
    \/ ClassStatement(3, "empty", "m", Absent)
    \/ \E key \in InheritNames : ClassStatement(4, "ns", key, Val(4))
    \/ \E kind \in {"ns", "empty"} : ClassStatement(5, kind, "x", Val(5))
    \/ \E target \in {2, 3, 5, 21, 31, 51}, path \in InheritPaths :
           AttrGet(target, path)

SpecInherit == Init /\ [][NextInherit]_vars

-----------------------------------------------------------------------------
(* SpecMeta: Meta, a Namespaceable class of classes, and MTest, a class    *)
(* with metaclass Meta, each with a Namespace ns, and reads and writes of  *)
(* ns.m through Meta, MTest and an instance of MTest.                      *)

MetaMembers == {Val(1), Desc(1, 1), Desc(3, 2)}

NextMeta ==
    \/ \E value \in MetaMembers, key \in {"m", "x"} : ClassStatement(6, "ns", key, value)
    \/ \E value \in MetaMembers, key \in {"m", "x"} : ClassStatement(7, "ns", key, value)
    \/ \E target \in {6, 7, 71}, name \in {"m", "x"} : AttrGet(target, <<"ns", name>>)
    \/ \E target \in {7, 71} : AttrSet(target, <<"ns", "m">>, Val(2))

SpecMeta == Init /\ [][NextMeta]_vars

-----------------------------------------------------------------------------
(* SpecBind: the body of class Test with its `with` blocks, statement by   *)
(* statement, a second class Test2, and direct calls of Namespace.push     *)
(* with every name, scope and parent mapping.                              *)

BindNames == {"ns", "x"}
BindParents == {Base(1), Ns(1)}

NextBind ==
    \/ BeginClass(1)
    \/ WithNew(1, "ns")
    \/ \E askey \in {NoneName, "ns", "x"} : WithResume(1, "ns", askey)
    \/ BlockExit(1)
    \/ EndClass(1)
    \/ ClassStatement(4, "empty", "m", Absent)
    \/ \E n \in {1, 2}, name \in BindNames, scope \in {1, 4}, parent \in BindParents :
           Push(n, name, scope, parent)

SpecBind == Init /\ [][NextBind]_vars

-----------------------------------------------------------------------------
(* SpecActivate: the body of class Test with its `with` blocks, statement  *)
(* by statement, and direct calls of activate on its Namespaces, during    *)
(* the body and after the class is created.                                *)

NextActivate ==
    \/ BeginClass(1)
    \/ WithNew(1, "ns")
    \/ WithResume(1, "ns", NoneName)
    \/ BlockExit(1)
    \/ EndClass(1)
    \/ \E n \in 1..MaxNs : Activate(n)

SpecActivate == Init /\ [][NextActivate]_vars

-----------------------------------------------------------------------------
(* SpecNameless: a class body that opens blocks on Namespaces it names     *)
(* (`with Namespace() as ns:`) and on Namespaces it does not               *)
(* (`with Namespace():`), as test_empty_nameless and                       *)
(* test_non_empty_nameless do, and assigns inside them.                    *)

NextNameless ==
    \/ BeginClass(1)
    \/ \E key \in {NoneName, "ns"} : WithNew(1, key)
    \/ \E askey \in {NoneName, "x"} : WithResume(1, "ns", askey)
    \/ BodyAssign(1, "m", Val(1))
    \/ BlockExit(1)
    \/ EndClass(1)

SpecNameless == Init /\ [][NextNameless]_vars

-----------------------------------------------------------------------------
(* SpecScope: the scope of one class, driven by hand as test_finalization  *)
(* does, next to the statements of the body that push and pop it.          *)

ScopeDicts == {NoneRef, Ns(1)}

NextScope ==
    \/ BeginClass(1)
    \/ WithNew(1, "ns")
    \/ BlockExit(1)
    \/ BodyAssign(1, "m", Val(1))
    \/ EndClass(1)
    \/ ScopeFinalize(1)
    \/ \E ref \in ScopeDicts : ScopePush(1, ref)
    \/ ScopePop(1)
    \/ Activate(1)

SpecScope == Init /\ [][NextScope]_vars

-----------------------------------------------------------------------------
(* SpecScopeKeys: the scopes of Test and Subclass(Test) as mappings, after *)
(* the classes are created: len, iteration, and get, set and del under     *)
(* names and dotted names, next to writes through the classes.  The scope  *)
(* of Test2 is asked for its length and its keys while its body runs.      *)

ScopeKeys == {<<"m">>, <<"ns", "m">>, <<"ns", "ns", "m">>, <<"ns", "x", "m">>,
              <<"x", "m">>, <<"ns", "m", "x">>}

NextScopeKeys ==
    \/ \E kind \in {"ns", "nested", "plain"} : ClassStatement(1, kind, "m", Val(1))
    \/ ClassStatement(2, "ns", "m", Val(2))
    \/ BeginClass(4)
    \/ EndClass(4)
    \/ \E c \in {1, 2, 4} : ScopeLen(c)
    \/ \E c \in {1, 2, 4} : ScopeIter(c)
    \/ \E c \in {1, 2}, key \in ScopeKeys : ScopeGet(c, key)
    \/ \E c \in {1, 2}, key \in ScopeKeys : ScopeSet(c, key, Val(3))
    \/ \E c \in {1, 2}, key \in ScopeKeys : ScopeDel(c, key)
    \/ AddNested(1, <<"ns", "x">>)
    \/ \E c \in {1, 2} : AttrGet(c, <<"ns", "m">>)

SpecScopeKeys == Init /\ [][NextScopeKeys]_vars

-----------------------------------------------------------------------------
(* SpecTooDeep: class Test with a plain attribute or a get-only descriptor *)
(* m, at the top or inside Namespaces, and Subclass(Test) with an empty    *)
(* body; dotted names that run past m, as in test_too_deep, and dotted     *)
(* names that do not.                                                      *)

DeepNames == {<<"m", "x">>, <<"ns", "m", "x">>, <<"ns", "m">>, <<"ns", "ns", "m">>,
              <<"x", "m">>}
DeepValues == {Val(1), Desc(1, 1)}

NextTooDeep ==
    \/ \E kind \in {"ns", "nested", "plain"}, value \in DeepValues :
           ClassStatement(1, kind, "m", value)
    \/ ClassStatement(2, "empty", "m", Absent)
    \/ \E c \in {1, 2}, name \in DeepNames : DottedGet(c, name)
    \/ \E c \in {1, 2}, name \in DeepNames : DottedSet(c, name, Val(2))
    \/ \E c \in {1, 2}, name \in DeepNames : DottedDel(c, name)
    \/ AddLater(1, "x")
    \/ \E c \in {1, 2} : AttrGet(c, <<"ns", "m">>)

SpecTooDeep == Init /\ [][NextTooDeep]_vars

-----------------------------------------------------------------------------
(* SpecAddLater: class Test, created with an empty body or with a          *)
(* Namespace ns, is given Namespaces afterwards, as in test_add_later:     *)
(* Test.ns = Namespace(), Test.ns.x = Namespace(), then values are set and *)
(* read through both.                                                      *)

LaterPaths == {<<"ns", "m">>, <<"ns", "x", "m">>}
LaterValues == {Val(2), Val(3)}

NextAddLater ==
    \/ \E kind \in {"empty", "ns"} : ClassStatement(1, kind, "m", Val(1))
    \/ \E path \in {<<"ns">>, <<"ns", "x">>} : AssignNamespace(1, path)
    \/ \E path \in LaterPaths, value \in LaterValues : AttrSet(1, path, value)
    \/ \E path \in LaterPaths : AttrGet(1, path)

SpecAddLater == Init /\ [][NextAddLater]_vars

-----------------------------------------------------------------------------
(* SpecMustInherit: class Test(Namespaceable) and class Bare, whose        *)
(* metaclass is NamespaceableMeta and which has no base, then reads and    *)
(* writes through both.                                                    *)

MustInheritPaths == {<<"m">>, <<"ns", "m">>}
MustInheritValues == {Val(1), Val(2)}

NextMustInherit ==
    \/ \E c \in {1, 8}, kind \in {"empty", "plain", "ns"} : ClassStatement(c, kind, "m", Val(1))
    \/ \E c \in {1, 8}, path \in MustInheritPaths, value \in MustInheritValues :
            AttrSet(c, path, value)
    \/ \E c \in {1, 8}, path \in MustInheritPaths : AttrGet(c, path)

SpecMustInherit == Init /\ [][NextMustInherit]_vars

-----------------------------------------------------------------------------
(* SpecInstance: class Test with a Namespace ns holding m (a plain value,  *)
(* a function or a descriptor with a set hook, a delete hook or both),     *)
(* Subclass(Test), which inherits ns or reopens it, two instances of Test  *)
(* and one of Subclass, and reads, writes and deletes of ns.m through the  *)
(* classes and the instances.                                              *)

InstanceMembers == {Val(1), Desc(1, 1), Desc(2, 3), Desc(3, 2), Desc(4, 4), Desc(5, 6)}
InstanceTargets == {1, 2, 11, 12, 21}

NextInstance ==
    \/ \E value \in InstanceMembers : ClassStatement(1, "ns", "m", value)
    \/ \E kind \in {"empty", "ns"} : ClassStatement(2, kind, "x", Val(1))
    \/ \E target \in InstanceTargets : AttrGet(target, <<"ns", "m">>)
    \/ \E target \in InstanceTargets : AttrSet(target, <<"ns", "m">>, Val(2))
    \/ \E target \in InstanceTargets : AttrDel(target, <<"ns", "m">>)

SpecInstance == Init /\ [][NextInstance]_vars

-----------------------------------------------------------------------------
(* SpecSetName: the body of class Test, statement by statement, with       *)
(* blocks on new Namespaces and on ns again, with and without `as ns`, and *)
(* members that define __set_name__ or nothing, then reads of the class.   *)

SetNameMembers == {Val(1), Desc(1, 8)}
SetNamePaths == {<<"m">>, <<"ns", "m">>}

NextSetName ==
    \/ BeginClass(1)
    \/ WithNew(1, "ns")
    \/ \E askey \in {NoneName, "ns"} : WithResume(1, "ns", askey)
    \/ \E value \in SetNameMembers : BodyAssign(1, "m", value)
    \/ BlockExit(1)
    \/ EndClass(1)
    \/ \E path \in SetNamePaths : AttrGet(1, path)

SpecSetName == Init /\ [][NextSetName]_vars

-----------------------------------------------------------------------------
(* SpecPath: class Test with an empty body, one Namespace or two nested    *)
(* ones, direct calls of get_namespace for Test and an instance, a         *)
(* Namespace assigned to Test.ns or to Test.x.ns after the class is        *)
(* created, and reads of the path of the Namespaces there are.             *)

PathPaths == {<<"ns">>, <<"ns", "ns">>, <<"x", "ns", "m">>}

NextPath ==
    \/ \E kind \in {"empty", "ns", "nested"} : ClassStatement(1, kind, "m", Val(1))
    \/ \E target \in {1, 11}, path \in PathPaths : GetNamespace(target, path)
    \/ \E path \in {<<"ns">>, <<"x", "ns">>} : AssignNamespace(1, path)
    \/ \E n \in 1..MaxNs : NamespacePath(n)

SpecPath == Init /\ [][NextPath]_vars

-----------------------------------------------------------------------------
(* SpecPush: the body of class Test with a block on a new Namespace,       *)
(* Namespaces made by get_namespace for Test and for an instance (they     *)
(* have a name and a parent and no scope), and direct calls of             *)
(* Namespace.push on the Namespaces there are.                             *)

PushNames == {"ns", "x"}
PushParents == {Base(1), Ns(1)}

NextPush ==
    \/ BeginClass(1)
    \/ WithNew(1, "ns")
    \/ BlockExit(1)
    \/ EndClass(1)
    \/ \E target \in {1, 11}, name \in PushNames : GetNamespace(target, <<name>>)
    \/ \E n \in {1, 2}, name \in PushNames, parent \in PushParents : Push(n, name, 1, parent)

SpecPush == Init /\ [][NextPush]_vars

-----------------------------------------------------------------------------
(* SpecReuse: class Test1 with a Namespace ns, then class Test2, whose     *)
(* body and whose namespaces are given what a program can hold of the      *)
(* Namespaces that exist: the objects and their two kinds of proxy.        *)

ReuseKinds == {"ns", "proxy", "sproxy"}
ReuseNames == {"ns", "x"}

NextReuse ==
    \/ ClassStatement(1, "ns", "m", Val(1))
    \/ BeginClass(4)
    \/ WithNew(4, "ns")
    \/ BlockExit(4)
    \/ EndClass(4)
    \/ \E key \in ReuseNames, kind \in ReuseKinds, n \in 1..MaxNs :
           BodyStore(4, key, kind, n)
    \/ \E key \in ReuseNames, kind \in ReuseKinds, n \in 1..MaxNs :
           StoreLater(4, <<"ns", key>>, kind, n)
    \/ \E key \in ReuseNames, n \in 1..MaxNs : Reassign(4, key, n)
    \/ \E c \in {1, 4} : AttrGet(c, <<"ns", "m">>)

SpecReuse == Init /\ [][NextReuse]_vars

-----------------------------------------------------------------------------
(* SpecStore: class Test with or without a Namespace ns, class Subclass    *)
(* with an empty body, fresh Namespaces assigned as Test.ns, as            *)
(* Subclass.ns and as ns.x through Test, through Subclass and through an   *)
(* instance of Test, and reads, writes and deletes through the three.      *)

StoreTargets == {1, 2, 11}
StorePlaces == {<<1, <<"ns">>>>, <<2, <<"ns">>>>} \cup {<<t, <<"ns", "x">>>> : t \in StoreTargets}

NextStore ==
    \/ \E kind \in {"empty", "ns"} : ClassStatement(1, kind, "m", Val(1))
    \/ ClassStatement(2, "empty", "m", Absent)
    \/ \E place \in StorePlaces : AssignNamespace(place[1], place[2])
    \/ \E t \in StoreTargets, path \in {<<"ns">>, <<"ns", "x">>} : AttrGet(t, path)
    \/ \E t \in StoreTargets : AttrSet(t, <<"ns", "m">>, Val(2))
    \/ \E t \in StoreTargets : AttrDel(t, <<"ns", "m">>)

SpecStore == Init /\ [][NextStore]_vars

-----------------------------------------------------------------------------
(* SpecDeactivate: the body of class Test with its `with` blocks and       *)
(* assignments, statement by statement, and direct calls of activate and   *)
(* deactivate on its Namespaces.                                           *)

NextDeactivate ==
    \/ BeginClass(1)
    \/ WithNew(1, "ns")
    \/ WithResume(1, "ns", NoneName)
    \/ BodyAssign(1, "m", Val(1))
    \/ BlockExit(1)
    \/ EndClass(1)
    \/ \E n \in 1..MaxNs : Activate(n)
    \/ \E n \in 1..MaxNs : Deactivate(n)

SpecDeactivate == Init /\ [][NextDeactivate]_vars

-----------------------------------------------------------------------------
(* SpecMetaBare: Meta, a Namespaceable class of classes with or without a  *)
(* Namespace ns, and MTest, a class with metaclass Meta and a Namespace    *)
(* ns, and reads, writes and deletes of ns.m and ns.x through MTest and an *)
(* instance of MTest.                                                      *)

MetaBareMembers == {Val(1), Desc(1, 1)}
MetaBareTargets == {7, 71}

NextMetaBare ==
    \/ \E kind \in {"empty", "ns"} : ClassStatement(6, kind, "x", Val(3))
    \/ \E value \in MetaBareMembers : ClassStatement(7, "ns", "m", value)
    \/ \E target \in MetaBareTargets, name \in {"m", "x"} : AttrGet(target, <<"ns", name>>)
    \/ \E target \in MetaBareTargets : AttrSet(target, <<"ns", "x">>, Val(2))
    \/ \E target \in MetaBareTargets, name \in {"m", "x"} : AttrDel(target, <<"ns", name>>)

SpecMetaBare == Init /\ [][NextMetaBare]_vars

-----------------------------------------------------------------------------
(* SpecUnnamed: a class body with blocks on Namespaces it gives no name    *)
(* (`with raw:`), assignments of values, and assignments of the Namespace  *)
(* objects themselves (`ns = raw`), inside and after the blocks.           *)

NextUnnamed ==
    \/ BeginClass(1)
    \/ WithNew(1, NoneName)
    \/ BodyAssign(1, "m", Val(1))
    \/ \E n \in 1..MaxNs : BodyBind(1, "ns", n)
    \/ BlockExit(1)
    \/ EndClass(1)

SpecUnnamed == Init /\ [][NextUnnamed]_vars

-----------------------------------------------------------------------------
(* SpecFixed: class Fixed, a tuple subclass with empty __slots__ and a     *)
(* Namespace ns holding m, as in test_tuple_subclass, and reads, writes    *)
(* and deletes of ns.m and ns.x through the class and through an instance, *)
(* which can carry no Namespace of its own.                                *)

FixedMembers == {Val(1), Desc(1, 1), Desc(2, 3), Desc(4, 4), Desc(5, 6)}
FixedTargets == {9, 91}
FixedNames == {"m", "x"}

NextFixed ==
    \/ \E value \in FixedMembers : ClassStatement(9, "ns", "m", value)
    \/ \E target \in FixedTargets, name \in FixedNames : AttrGet(target, <<"ns", name>>)
    \/ \E target \in FixedTargets, name \in FixedNames : AttrSet(target, <<"ns", name>>, Val(2))
    \/ \E target \in FixedTargets, name \in FixedNames : AttrDel(target, <<"ns", name>>)

SpecFixed == Init /\ [][NextFixed]_vars

-----------------------------------------------------------------------------
(* Properties of the class body (SpecBody).                                *)

\* The statement just run was `key = value` / `del key` / `key` in the body
\* of class c.
Ran(k, c, key) == op'.k = k /\ op'.target = c /\ op'.path = <<key>>

\* The innermost overlay of the body of class c is a Namespace.
InNamespace(c) == phase[c] = "body" /\ dicts[c][1][1] = "ns"

\* The overlays of class c, innermost first, that bind key.
Binding(W, refs, key) == {i \in 1..Len(refs) : RefItems(W, refs[i])[key] # Absent}

\* What a read of key finds in the overlays refs.
ReadThrough(W, c, refs, key) ==
    IF Binding(W, refs, key) = {} THEN Raise("NameError", <<key>>)
    ELSE RValue(wrap(RefItems(W, refs[Min(Binding(W, refs, key))])[key], c))

\* The Namespace under path in the attribute table of class c, 0 if none.
ClassNamespace(c, path) == raw_walk(World, clsvars[c], path)

C4_Stored ==
    \A c \in AllClasses, key \in Names :
        (Ran("assign", c, key) /\ InNamespace(c) /\ op'.value.t = "val")
        => /\ ~IsErr(ret')
           /\ heap'[dicts[c][1][2]].items[key] = op'.value
           /\ head'[c] = head[c]

C4_Readable ==
    \A c \in AllClasses, path \in {<<"ns">>, <<"ns", "ns">>}, name \in Names :
        (/\ phase[c] = "created"
         /\ ClassNamespace(c, path) # 0
         /\ heap[ClassNamespace(c, path)].items[name].t = "val")
        => /\ attribute_get(World, c, path \o <<name>>).r
                = RValue(heap[ClassNamespace(c, path)].items[name])
           /\ attribute_get(World, 10 * c + 1, path \o <<name>>).r
                = RValue(heap[ClassNamespace(c, path)].items[name])

\* C4: a plain value assigned while a Namespace is the innermost overlay of a
\* class body goes into that Namespace and leaves the main table of the class
\* alone; once the class exists, every plain value held by the Namespace at
\* ns or ns.ns is what Class.ns.name and Class().ns.name return.
C4 == [][C4_Stored]_vars /\ []C4_Readable

\* C4 witness: the class exists, its nested Namespace ns.ns holds a value, and
\* the last operation read it through an instance.
C4_Witness ==
    /\ phase[1] = "created"
    /\ ClassNamespace(1, <<"ns", "ns">>) # 0
    /\ heap[ClassNamespace(1, <<"ns", "ns">>)].items["m"] = Val(1)
    /\ op.k = "get" /\ op.target = 11 /\ op.path = <<"ns", "ns", "m">>
    /\ ret = RValue(Val(1))

C5_Frame ==
    \A c \in AllClasses, key \in Names :
        (/\ Ran("assign", c, key) \/ Ran("del", c, key)
         /\ InNamespace(c)
         /\ op'.value.t \in {"val", "absent"})
        => /\ head' = head
           /\ dicts' = dicts
           /\ Len(heap') = Len(heap)
           /\ \A n \in 1..Len(heap) :
                  n # dicts[c][1][2] => heap'[n] = heap[n]
           /\ \A other \in Names \ {key} :
                  heap'[dicts[c][1][2]].items[other] = heap[dicts[c][1][2]].items[other]

C5_Read ==
    \A c \in AllClasses, key \in Names :
        (Ran("read", c, key) /\ phase[c] = "body")
        => /\ ret' = ReadThrough(World, c, dicts[c], key)
           /\ World' = World

C5_Exit ==
    \A c \in AllClasses, key \in Names :
        (op'.k = "exit" /\ op'.target = c /\ ~IsErr(ret') /\ InNamespace(c))
        => body_read(World', c, key) = ReadThrough(World, c, Tail(dicts[c]), key)

C5_Del ==
    \A c \in AllClasses, key \in Names :
        (/\ Ran("del", c, key)
         /\ InNamespace(c)
         /\ 1 \notin Binding(World, dicts[c], key)
         /\ Binding(World, dicts[c], key) # {})
        => /\ ret' = Raise("NameError", <<key>>)
           /\ World' = World

\* C5: while a Namespace is the innermost overlay, `key = value` and `del key`
\* change nothing but that Namespace's entry for key; a read returns the
\* innermost binding of the name; after the block is left a read returns what
\* the enclosing overlays bind; and `del key` for a name bound only in an
\* enclosing overlay raises NameError and changes nothing.
C5 == [][C5_Frame /\ C5_Read /\ C5_Exit /\ C5_Del]_vars

\* C5 witness: inside a block, `del m` has just failed for a name that only
\* the enclosing class body binds.
C5_Witness ==
    /\ phase[1] = "body"
    /\ Len(dicts[1]) = 2
    /\ op.k = "del" /\ op.path = <<"m">>
    /\ ret = Raise("NameError", <<"m">>)
    /\ head[1]["m"] = Val(1)
    /\ heap[dicts[1][1][2]].items["m"] = Absent

\* key names, in the body of class c, a bound Namespace that is not active
\* and whose parent is the current innermost overlay.
Resumable(c, key) ==
    /\ phase[c] = "body"
    /\ ~IsErr(Scope__getitem__(World, c, <<key>>))
    /\ Scope__getitem__(World, c, <<key>>).val.t = "sproxy"
    /\ ~heap[Scope__getitem__(World, c, <<key>>).val.v].active
    /\ heap[Scope__getitem__(World, c, <<key>>).val.v].parent = scope_head(World, c)
    /\ heap[Scope__getitem__(World, c, <<key>>).val.v].scope = c

C6_Resume ==
    \A c \in AllClasses, key \in Names :
        (Ran("resume", c, key) /\ Resumable(c, key) /\ op'.aux \in {NoneName, key})
        => /\ ~IsErr(ret')
           /\ dicts'[c] = <<Ns(Scope__getitem__(World, c, <<key>>).val.v)>> \o dicts[c]
           /\ Head(blocks'[c]).depth = Len(dicts[c])
           /\ \A n \in 1..Len(heap) : heap'[n].items = heap[n].items
           /\ head' = head

C6_Exit ==
    \A c \in AllClasses :
        (op'.k = "exit" /\ op'.target = c)
        => /\ ~IsErr(ret')
           /\ Len(dicts'[c]) = Head(blocks[c]).depth
           /\ \A n \in 1..Len(heap) : heap'[n].items = heap[n].items
           /\ head' = head

C6_LastWrite ==
    \A c \in AllClasses, key \in Names :
        (Ran("assign", c, key) /\ InNamespace(c) /\ op'.value.t = "val")
        => heap'[dicts[c][1][2]].items
               = [heap[dicts[c][1][2]].items EXCEPT ![key] = op'.value]

\* C6: entering a bound, inactive Namespace from its parent overlay, as
\* `with ns:` or as `with ns as ns:`, succeeds, puts it on top of the overlay
\* stack and changes no binding; leaving a block brings the stack back to its
\* depth before the entry and changes no binding; an assignment in the block
\* replaces exactly the entry of that name, so the last value written is the
\* one the Namespace holds.
C6 == [][C6_Resume /\ C6_Exit /\ C6_LastWrite]_vars

\* C6 witness: the one Namespace of the body was entered three times, the
\* last two times as `with ns as ns:`, and holds the second value written.
C6_Witness ==
    /\ phase[1] = "body"
    /\ Len(heap) = 1
    /\ Len(namespaces[1]) = 3
    /\ op.k = "resume" /\ op.aux = "ns" /\ ~IsErr(ret)
    /\ dicts[1] = <<Ns(1), Base(1)>>
    /\ heap[1].items["m"] = Val(2)

-----------------------------------------------------------------------------
(* Properties of lookups through the runtime proxy.                        *)

\* The operation just performed was of kind k, on target, for path.
Did(k, target, path) == op'.k = k /\ op'.target = target /\ op'.path = path

\* The entry for name in the Namespace that class c holds at path, and in the
\* Namespace registered for instance i at path; Absent if there is none.
ClassEntry(c, path, name) ==
    IF ClassNamespace(c, path) = 0 THEN Absent
    ELSE heap[ClassNamespace(c, path)].items[name]
InstanceEntry(i, path, name) ==
    IF Lookup(World, i, path) = 0 THEN Absent
    ELSE heap[Lookup(World, i, path)].items[name]

\* What _NamespaceProxy.__getattribute__ works with when target.path.name is
\* read in the current state: the instance and owner after retargeting and
\* the entries of the instance side and of the mro side.  ok is FALSE when
\* target.path is no proxy or a map cannot be computed.
Seen(target, path, name) ==
    LET NoView == [ok |-> FALSE, instance |-> None, owner |-> None,
                   instance_value |-> Absent, mro_value |-> Absent]
        View(self, values) ==
            [ok |-> TRUE, instance |-> self.instance, owner |-> self.owner,
             instance_value |-> values.instance, mro_value |-> values.mro]
        Maps(self, instance_map, mro_map) ==
            IF IsErr(mro_map.r) THEN NoView
            ELSE View(self, proxy_values(mro_map.w, instance_map.chain,
                                         mro_map.chain, name))
        Instance(self, instance_map) ==
            IF IsErr(instance_map.r) THEN NoView
            ELSE Maps(self, instance_map, _mro_map(instance_map.w, self.dct, self.owner))
        Retargeted(self) ==
            IF IsErr(self.r) THEN NoView
            ELSE Instance(self, _instance_map(self.w, self.dct, self.instance))
        Walked(walked) ==
            IF IsErr(walked.r) \/ walked.obj.t # "proxy" THEN NoView
            ELSE Retargeted(_retarget(walked.w, walked.obj.v,
                                      walked.obj.o[1], walked.obj.o[2]))
    IN Walked(attribute_walk(World, TargetObj(target), path))

\* The result of calling the get hook of value for (instance, owner).
Got(value, instance, owner) == Result("get", value, instance, owner, Absent, "", <<>>)

C1_Claimed_Step ==
    \A i \in AllInstances, name \in Names :
        (/\ Did("get", i, <<"ns", name>>)
         /\ is_data(ClassEntry(InstClass(i), <<"ns">>, name))
         /\ InstanceEntry(i, <<"ns">>, name) # Absent)
        => ret' = Got(ClassEntry(InstClass(i), <<"ns">>, name), i, InstClass(i))

\* C1 as claimed: whenever the class-level entry for m defines a set hook or
\* a delete hook and the instance's own Namespace holds m too, reading
\* i.ns.m returns the descriptor's get(i, C).
C1_Claimed == [][C1_Claimed_Step]_vars

C1_Step ==
    \A i \in AllInstances, name \in Names :
        (/\ Did("get", i, <<"ns", name>>)
         /\ is_data(ClassEntry(InstClass(i), <<"ns">>, name))
         /\ has_get(ClassEntry(InstClass(i), <<"ns">>, name))
         /\ InstanceEntry(i, <<"ns">>, name) # Absent)
        => ret' = Got(ClassEntry(InstClass(i), <<"ns">>, name), i, InstClass(i))

\* C1: whenever the class-level entry for m defines a set hook or a delete
\* hook and also a get hook, and the instance's own Namespace holds m too,
\* reading i.ns.m returns the descriptor's get(i, C), never the instance's
\* entry, whichever of the two was installed first.
C1 == [][C1_Step]_vars

\* C1 witness: the instance entry was stored first, the class-level property
\* was installed afterwards, and the read went to the property.
C1_Witness ==
    /\ op.k = "get" /\ op.target = 11
    /\ ClassEntry(1, <<"ns">>, "m") = Desc(2, 3)
    /\ InstanceEntry(11, <<"ns">>, "m") = Val(2)
    /\ ret = Got(Desc(2, 3), 11, 1)

\* The order of preference among the two entries seen.
C2_Order(seen, name) ==
    /\ (IsMeta(seen.owner) /\ has_get(seen.instance_value))
           => ret' = descriptor_get(seen.instance_value, None, seen.instance)
    /\ (~(IsMeta(seen.owner) /\ has_get(seen.instance_value))
           /\ seen.instance_value # Absent)
           => ret' = RValue(seen.instance_value)
    /\ (~IsMeta(seen.owner) /\ seen.instance_value = Absent
           /\ has_get(seen.mro_value))
           => ret' = descriptor_get(seen.mro_value, seen.instance, seen.owner)
    /\ (seen.instance_value = Absent /\ ~has_get(seen.mro_value)
           /\ seen.mro_value # Absent)
           => ret' = RValue(seen.mro_value)
    /\ (seen.instance_value = Absent /\ seen.mro_value = Absent)
           => ret' = Raise("AttributeError", <<name>>)

C2_Case(seen, name) == (seen.ok /\ ~is_data(seen.mro_value)) => C2_Order(seen, name)

C2_Step ==
    \A target \in AllClasses \cup AllInstances, name \in Names :
        Did("get", target, <<"ns", name>>) => C2_Case(Seen(target, <<"ns">>, name), name)

\* C2: when the mro side's entry for the name is no data descriptor, a read
\* through the proxy returns, in this order of preference: the instance
\* side's entry called as get(None, instance) if the owner is a class of
\* classes and the entry has a get hook; the instance side's entry itself;
\* the mro side's entry called as get(instance, owner) if it has a get hook;
\* the mro side's entry itself; else it raises AttributeError(name).
C2 == [][C2_Step]_vars

\* C2 witness: MTest.ns.m, with m a function of MTest and Meta the owner
\* after retargeting, has just returned m.__get__(None, MTest).
C2_Witness ==
    /\ op.k = "get" /\ op.target = 7
    /\ ClassEntry(7, <<"ns">>, "m") = Desc(1, 1)
    /\ ret = Got(Desc(1, 1), None, 7)

\* The class-level entry is a function: a get hook and nothing else.
IsFunction(value) == has_get(value) /\ ~is_data(value) /\ ~IsNamespace(value)

C3_Override ==
    \A i \in AllInstances :
        (/\ Did("set", i, <<"ns", "m">>)
         /\ op'.value.t = "val"
         /\ IsFunction(ClassEntry(InstClass(i), <<"ns">>, "m")))
        => /\ ~IsErr(ret')
           /\ attribute_get(World', i, <<"ns", "m">>).r = RValue(op'.value)

C3_Revert ==
    \A i \in AllInstances :
        (/\ Did("delete", i, <<"ns", "m">>)
         /\ InstanceEntry(i, <<"ns">>, "m") # Absent
         /\ IsFunction(ClassEntry(InstClass(i), <<"ns">>, "m")))
        => /\ ~IsErr(ret')
           /\ attribute_get(World', i, <<"ns", "m">>).r
                = Got(ClassEntry(InstClass(i), <<"ns">>, "m"), i, InstClass(i))

C3_Replace ==
    \A i \in AllInstances :
        (/\ Did("set", InstClass(i), <<"ns", "m">>)
         /\ op'.value.t = "val"
         /\ InstanceEntry(i, <<"ns">>, "m") = Absent
         /\ IsFunction(ClassEntry(InstClass(i), <<"ns">>, "m")))
        => /\ ~IsErr(ret')
           /\ attribute_get(World', i, <<"ns", "m">>).r = RValue(op'.value)

\* C3: with m a function in the class's Namespace ns, i.ns.m = v makes
\* i.ns.m read v; del i.ns.m makes i.ns.m read the function bound to i again;
\* and C.ns.m = w, with no instance entry left, makes i.ns.m read w.
C3 == [][C3_Override /\ C3_Revert /\ C3_Replace]_vars

\* C3 witness: the instance's entry has just been deleted, and i.ns.m reads
\* the class's function bound to the instance again.
C3_Witness ==
    /\ op.k = "delete" /\ op.target = 11 /\ ~IsErr(ret)
    /\ InstanceEntry(11, <<"ns">>, "m") = Absent
    /\ ClassEntry(1, <<"ns">>, "m") = Desc(1, 1)
    /\ attribute_get(World, 11, <<"ns", "m">>).r = Got(Desc(1, 1), 11, 1)

-----------------------------------------------------------------------------
(* Properties of inheritance (SpecInherit).                                *)

ClassOf(target) == IF IsClass(target) THEN target ELSE InstClass(target)

\* The entry of the target's own Namespace, if the target is an instance.
OwnEntry(target, path, name) ==
    IF IsInstance(target) THEN InstanceEntry(target, path, name) ELSE Absent

\* The attribute table items, followed along path, reaches a value that is
\* no Namespace.
RECURSIVE HoldsBlocker(_, _)
HoldsBlocker(items, path) ==
    /\ path # <<>>
    /\ items[Head(path)] # Absent
    /\ \/ ~IsNamespace(items[Head(path)])
       \/ HoldsBlocker(heap[items[Head(path)].v].items, Tail(path))

\* The positions in the mro of class c of the classes that hold a blocker for
\* path, that hold a Namespace at path, and whose Namespace at path binds name.
Blockers(c, path) == {k \in 1..Len(Mro(c)) : HoldsBlocker(clsvars[Mro(c)[k]], path)}
Definers(c, path) == {k \in 1..Len(Mro(c)) : ClassNamespace(Mro(c)[k], path) # 0}
Binders(c, path, name) ==
    {k \in Definers(c, path) : ClassEntry(Mro(c)[k], path, name) # Absent}

\* The positions before the first blocker.
Prefix(c, path) ==
    {k \in 1..Len(Mro(c)) : \A b \in Blockers(c, path) : k < b}

C7_Read ==
    \A target \in AllClasses \cup AllInstances, name \in Names :
        (/\ Did("get", target, <<"ns", name>>)
         /\ Blockers(ClassOf(target), <<"ns">>) # {}
         /\ OwnEntry(target, <<"ns">>, name) = Absent)
        => /\ ret'.t = "raw" =>
                \E k \in Prefix(ClassOf(target), <<"ns">>) :
                    /\ k \in Binders(ClassOf(target), <<"ns">>, name)
                    /\ ret'.val = ClassEntry(Mro(ClassOf(target))[k], <<"ns">>, name)
           /\ (Binders(ClassOf(target), <<"ns">>, name)
                   \cap Prefix(ClassOf(target), <<"ns">>) = {})
                => IsErr(ret')

C7_Chain ==
    \A c \in AllClasses :
        (phase[c] = "created" /\ ClassNamespace(c, <<"ns">>) # 0)
        => \A j \in 1..Len(_mro_map(World, ClassNamespace(c, <<"ns">>), c).chain) :
               \E k \in Prefix(c, <<"ns">>) :
                   _mro_map(World, ClassNamespace(c, <<"ns">>), c).chain[j]
                       = Lookup(World, Mro(c)[k], <<"ns">>)

\* C7: when a class of the mro holds a non-Namespace value at ns, the chained
\* map of a class below it contains only Namespaces of the classes before the
\* first such class, a read of ns.name returns only an entry of one of those,
\* and it fails when none of those binds the name.
C7 == [][C7_Read]_vars /\ []C7_Chain

\* C7 witness: Subclass holds a plain ns, DoubleSubclass re-opens ns, and
\* reading m of Test's ns through DoubleSubclass has just failed.
C7_Witness ==
    /\ op.k = "get" /\ op.target = 31 /\ op.path = <<"ns", "m">>
    /\ ret = Raise("AttributeError", <<"m">>)
    /\ clsvars[2]["ns"] = Val(2)
    /\ ClassEntry(1, <<"ns">>, "m") = Val(1)
    /\ ClassEntry(3, <<"ns">>, "x") = Val(3)

\* What a read of name finds among the classes of the mro of c that hold a
\* Namespace at path: the entry of the earliest class that binds it.
Earliest(c, path, name) ==
    IF Binders(c, path, name) = {} THEN Raise("AttributeError", <<name>>)
    ELSE RValue(ClassEntry(Mro(c)[Min(Binders(c, path, name))], path, name))

C8_Read ==
    \A target \in AllClasses \cup AllInstances :
        (/\ op'.k = "get" /\ op'.target = target /\ Len(op'.path) > 1
         /\ Definers(ClassOf(target), Front(op'.path)) # {}
         /\ \A k \in 1..Len(Front(op'.path)) :
                Blockers(ClassOf(target), SubSeq(op'.path, 1, k)) = {}
         /\ OwnEntry(target, Front(op'.path), Last(op'.path)) = Absent)
        => ret' = Earliest(ClassOf(target), Front(op'.path), Last(op'.path))

\* C8: when classes of the mro hold a Namespace at the same path and none
\* holds a blocker, a read of path.name through the class or an instance
\* returns the entry of the earliest class in the mro whose Namespace binds
\* the name, and fails only if none does.
C8 == [][C8_Read]_vars

\* C8 witness: Test3(Test2, Test) reads m, which both bases bind, and gets
\* the entry of Test2, the earlier base.
C8_Witness ==
    /\ op.k = "get" /\ op.target = 51 /\ op.path = <<"ns", "m">>
    /\ ClassEntry(4, <<"ns">>, "m") = Val(4)
    /\ ClassEntry(1, <<"ns">>, "m") = Val(1)
    /\ ClassEntry(5, <<"ns">>, "x") = Val(5)
    /\ ret = RValue(Val(4))

-----------------------------------------------------------------------------
(* Properties of the dotted attribute functions and of the registry        *)
(* (SpecDotted).                                                           *)

\* Class c holds a Namespace at every prefix of path, and it is the one
\* registered for (c, prefix).
Defines(c, path) ==
    \A k \in 1..Len(path) :
        /\ ClassNamespace(c, SubSeq(path, 1, k)) # 0
        /\ Lookup(World, c, SubSeq(path, 1, k)) = ClassNamespace(c, SubSeq(path, 1, k))

C9_Set ==
    \A c \in AllClasses :
        (/\ op'.k = "setattr" /\ op'.target = c /\ Len(op'.path) > 1
         /\ op'.value.t = "val"
         /\ Defines(c, Front(op'.path)))
        => /\ ~IsErr(ret')
           /\ NamespaceableMeta__getattribute__(World', c, op'.path).r = RValue(op'.value)
           /\ attribute_get(World', c, op'.path).r = RValue(op'.value)

C9_Del ==
    \A c \in AllClasses :
        (/\ op'.k = "delattr" /\ op'.target = c /\ Len(op'.path) > 1
         /\ Defines(c, Front(op'.path))
         /\ ClassEntry(c, Front(op'.path), Last(op'.path)) # Absent)
        => /\ ~IsErr(ret')
           /\ NamespaceableMeta__getattribute__(World', c, op'.path).r
                = Raise("AttributeError", <<Last(op'.path)>>)

Targets == AllClasses \cup AllInstances

C10_Stable ==
    \A target \in Targets, path \in Paths :
        Lookup(World, target, path) # 0
        => Lookup(World', target, path) = Lookup(World, target, path)

C10_Get ==
    \A target \in Targets :
        (op'.k = "get_namespace" /\ op'.target = target)
        => /\ ret' = RValue(NsVal(Lookup(World', target, op'.path)))
           /\ Lookup(World', target, op'.path) # 0

C10_Single ==
    \A target \in Targets, path \in Paths :
        Cardinality(Registered(World, target, path)) <= 1

\* C10: the registry holds at most one Namespace for a (target, path); an
\* entry, once there, stays the same object through every operation; and
\* get_namespace returns the registered object.
C10 == [][C10_Stable /\ C10_Get]_vars /\ []C10_Single

\* C10 witness: get_namespace made the entry for (Test, x), a Namespace was
\* then added to Test as x, and a second get_namespace has just returned the
\* first object again.
C10_Witness ==
    /\ op.k = "get_namespace" /\ op.target = 1 /\ op.path = <<"x">>
    /\ clsvars[1]["x"].t = "ns"
    /\ ret.val.t = "ns"
    /\ ret.val # clsvars[1]["x"]
    /\ ret.val.v = Lookup(World, 1, <<"x">>)

-----------------------------------------------------------------------------
(* Properties of binding (SpecBind).                                       *)

\* Namespace n has its name, its scope and its parent.
IsBound(n) ==
    heap[n].name # NoneName /\ heap[n].scope # None /\ heap[n].parent # NoneRef

\* The call just made was n.push(...).
Pushed(n) == op'.k = "push" /\ op'.value.v = n

C11_Fixed ==
    \A n \in 1..Len(heap) :
        /\ Len(heap') >= Len(heap)
        /\ heap[n].name # NoneName => heap'[n].name = heap[n].name
        /\ heap[n].scope # None => heap'[n].scope = heap[n].scope
        /\ heap[n].parent # NoneRef => heap'[n].parent = heap[n].parent

C11_Push ==
    \A n \in 1..Len(heap) :
        (Pushed(n) /\ IsBound(n))
        => IF op'.path[1] # heap[n].name
           THEN ret' = Raise("ValueError: Cannot rename namespace", <<>>)
           ELSE IF op'.target # heap[n].scope
           THEN ret' = Raise("ValueError: Cannot reuse namespace", <<>>)
           ELSE IF PushedParent(op') # heap[n].parent
           THEN ret' = Raise("ValueError: Cannot reparent namespace", <<>>)
           ELSE ~IsErr(ret')

\* C11: a name, scope or parent that a Namespace has is never changed by any
\* operation; push on a bound Namespace raises 'Cannot rename namespace' for
\* another name, 'Cannot reuse namespace' for another scope and 'Cannot
\* reparent namespace' for another parent, and succeeds when given the name,
\* scope and parent the Namespace has.
C11 == [][C11_Fixed /\ C11_Push]_vars

-----------------------------------------------------------------------------
(* Properties of Namespaces carried from one class to another (SpecReuse). *)

\* Namespace n is bound in the scope of a class other than c, which exists.
BoundElsewhere(n, c) ==
    /\ heap[n].name # NoneName
    /\ heap[n].scope \in AllClasses \ {c}
    /\ phase[heap[n].scope] = "created"
    /\ phase[c] = "created"

C12_Step ==
    \A c \in AllClasses, n \in 1..Len(heap) :
        (/\ op'.k = "setattr" /\ op'.target = c /\ Len(op'.path) = 1
         /\ op'.value = NsVal(n)
         /\ BoundElsewhere(n, c))
        => /\ IsErr(ret')
           /\ clsvars'[c] = clsvars[c]

\* C12: assigning a Namespace object that is bound under one class as a plain
\* attribute of another, existing class raises an error and leaves the
\* attribute table of that class as it was.
C12 == [][C12_Step]_vars

\* The value is, or stands for, a Namespace bound in the scope of a class
\* other than c.
Carried(value, c) ==
    \/ value.t = "ns" /\ heap[value.v].scope \in AllClasses \ {c}
    \/ value.t = "proxy" /\ value.o[2] \in AllClasses \ {c}
    \/ value.t = "sproxy" /\ value.o[2] \in AllClasses \ {c}

\* The statement or operation just run stored value under key: in the body of
\* class c, or through the Namespace ns of class c after its creation.
StoredIn(c, key, value) ==
    /\ op'.target = c /\ op'.value = value
    /\ \/ op'.k = "assign" /\ op'.path = <<key>> /\ phase[c] = "body"
       \/ /\ op'.k = "set" /\ op'.path = <<"ns", key>>
          /\ phase[c] = "created" /\ IsNamespace(clsvars[c]["ns"])

\* No mapping has gained, lost or changed an entry.
NothingStored ==
    /\ head' = head
    /\ clsvars' = clsvars
    /\ \A n \in 1..Len(heap) : heap'[n].items = heap[n].items
    /\ \A n \in 1..Len(heap') : n > Len(heap) => heap'[n].items = EmptyItems

Moved == Raise("ValueError: Cannot move scopes between classes.", <<>>)
Reused == Raise("ValueError: Cannot reuse namespace", <<>>)
Renamed == Raise("ValueError: Cannot rename namespace", <<>>)

C13_Claimed_Step ==
    \A c \in AllClasses, key \in Names, kind \in ReuseKinds, n \in 1..Len(heap) :
        (/\ CanCarry(kind, n, c)
         /\ StoredIn(c, key, Held(World, kind, n))
         /\ Carried(Held(World, kind, n), c))
        => /\ ret' = IF kind = "ns" THEN Reused ELSE Moved
           /\ NothingStored

\* C13 as claimed: in the body of a second class and through its namespaces
\* after creation, storing the Namespace object of a first class raises
\* 'Cannot reuse namespace' and storing either proxy of it raises 'Cannot move
\* scopes between classes.'; nothing is stored.
C13_Claimed == [][C13_Claimed_Step]_vars

C13_Step ==
    \A c \in AllClasses, key \in Names, kind \in ReuseKinds, n \in 1..Len(heap) :
        (/\ CanCarry(kind, n, c)
         /\ StoredIn(c, key, Held(World, kind, n))
         /\ Carried(Held(World, kind, n), c))
        => /\ ret' = IF kind # "ns" THEN Moved
                     ELSE IF key # heap[n].name THEN Renamed ELSE Reused
           /\ NothingStored

\* C13: in the body of a second class and through its namespaces after
\* creation, storing the Namespace object of a first class raises 'Cannot
\* rename namespace' under a key that is not the Namespace's name and 'Cannot
\* reuse namespace' under its name, and storing either proxy of it raises
\* 'Cannot move scopes between classes.'; nothing is stored.
C13 == [][C13_Step]_vars

\* C13 witness: inside a `with` block of the body of Test2, the Namespace
\* object of Test1 was assigned to ns and refused.
C13_Witness ==
    /\ phase[4] = "body" /\ Len(dicts[4]) = 2
    /\ op.k = "assign" /\ op.target = 4 /\ op.path = <<"ns">> /\ op.value = NsVal(1)
    /\ heap[1].scope = 1 /\ heap[1].name = "ns"
    /\ ret = Reused

-----------------------------------------------------------------------------
(* Properties of activation (SpecActivate).                                *)

\* The positions of Namespace n on the overlay stack of scope c.
OnStack(c, n) == {i \in 1..Len(dicts[c]) : dicts[c][i] = Ns(n)}

C14_Activate ==
    \A n \in 1..Len(heap) :
        (op'.k = "activate" /\ op'.value = NsVal(n) /\ IsBound(n))
        => IF heap[n].active
           THEN ret' = Raise("ValueError: Cannot double-activate.", <<>>)
           ELSE IF dicts[heap[n].scope][1] # heap[n].parent
           THEN ret' = Raise("ValueError: Cannot reparent namespace", <<>>)
           ELSE /\ ~IsErr(ret')
                /\ dicts'[heap[n].scope] = <<Ns(n)>> \o dicts[heap[n].scope]
                /\ heap'[n].active

C14_Stack ==
    \A n \in 1..Len(heap) :
        heap[n].scope # None
        => /\ Cardinality(OnStack(heap[n].scope, n)) <= 1
           /\ heap[n].active
              => \E i \in OnStack(heap[n].scope, n) :
                     dicts[heap[n].scope][i + 1] = heap[n].parent

\* C14: activate() on a bound Namespace raises 'Cannot double-activate.' when
\* it is active, 'Cannot reparent namespace' when the top overlay of its scope
\* is not its parent, and otherwise puts it on top of the overlay stack and
\* sets active; no Namespace is on the overlay stack twice, and an active
\* Namespace sits directly above its parent.
C14 == [][C14_Activate]_vars /\ []C14_Stack


\* C15: the scope keeps its stack discipline.  finalize() raises ValueError
\* while an overlay is pushed, and otherwise sets finalized and returns the
\* base mapping; pop_() raises ValueError when only the base overlay is left;
\* push() raises ValueError once the scope is finalized.  An error leaves the
\* overlay stack and the finalized flag as they were, and the overlay stack of
\* a finalized scope never changes.
C15_Step ==
    \A c \in AllClasses :
        /\ (op'.k = "finalize" /\ op'.target = c)
           => IF Len(dicts[c]) # 1
              THEN /\ ret' = Raise("ValueError: Cannot finalize a pushed scope!", <<>>)
                   /\ dicts'[c] = dicts[c] /\ finalized'[c] = finalized[c]
              ELSE /\ finalized'[c]
                   /\ ret' = RValue(MapVal(Base(c)))
        /\ (op'.k = "pop_" /\ op'.target = c /\ Len(dicts[c]) = 1)
           => /\ ret' = Raise("ValueError: Cannot pop from a basal scope!", <<>>)
              /\ dicts'[c] = dicts[c] /\ finalized'[c] = finalized[c]
        /\ (op'.k = "scope_push" /\ op'.target = c /\ finalized[c])
           => /\ ret' = Raise("ValueError: Cannot push a finalized scope!", <<>>)
              /\ dicts'[c] = dicts[c] /\ finalized'[c] = finalized[c]
        /\ finalized[c] => dicts'[c] = dicts[c]

C15 == [][C15_Step]_vars

\* A push refused by the scope of a created class that holds a Namespace.
C15_Witness ==
    /\ op.k = "scope_push" /\ IsErr(ret) /\ phase[1] = "created"
    /\ \E n \in 1..Len(heap) : heap[n].scope = 1


\* C16: leaving the block of a Namespace that was never named raises
\* RuntimeError('Namespace must be named.'), whether or not the block assigned
\* names; leaving the block of a named Namespace deactivates it: it is
\* inactive and off the overlay stack.
C16_Step ==
    \A c \in AllClasses :
        (op'.k = "exit" /\ op'.target = c)
        => LET n == Head(blocks[c]).ns IN
           IF heap[n].name = NoneName
           THEN ret' = Raise("RuntimeError: Namespace must be named.", <<>>)
           ELSE /\ ~IsErr(ret')
                /\ ~heap'[n].active
                /\ \A i \in 1..Len(dicts'[c]) : dicts'[c][i] # Ns(n)

C16 == [][C16_Step]_vars

\* The block of an unnamed Namespace was left after the body assigned m.
C16_Witness ==
    /\ op.k = "exit"
    /\ ret = Raise("RuntimeError: Namespace must be named.", <<>>)
    /\ head[1]["m"] = Val(1)
    /\ \E n \in 1..Len(heap) : heap[n].name = NoneName


\* Every key of the base mapping of scope c and every member of the
\* Namespaces nested in it, by dotted path.
ScopePaths == UNION {[1..k -> Names] : k \in 1..MaxNs}
ScopeEntries(c) == {p \in ScopePaths : Entry(World, head[c], p) # Absent}

\* The keys iteration of scope c yields.
Yielded(c) == Scope__iter__(World, c).key

C17_Finalized ==
    \A c \in AllClasses :
        finalized[c]
        => /\ {Yielded(c)[i] : i \in 1..Len(Yielded(c))} = ScopeEntries(c)
           /\ Scope__len__(World, c) = RValue(IntVal(Len(Yielded(c))))
           /\ \A i \in 1..Len(Yielded(c)) :
                  ~IsErr(Scope__getitem__(World, c, Yielded(c)[i]))

C17_Step ==
    \A c \in AllClasses :
        /\ (op'.k = "len" /\ op'.target = c /\ ~finalized[c])
           => ret' = Raise("ValueError: Length not defined on unfinalized scope.", <<>>)
        /\ (op'.k = "iter" /\ op'.target = c /\ ~finalized[c])
           => ret' = Raise("ValueError: Iteration not defined on unfinalized scope.", <<>>)
        /\ (/\ op'.k \in {"setitem", "set"} /\ op'.target = c /\ ~IsErr(ret')
            /\ finalized[c] /\ Len(op'.path) > 1
            /\ Entry(World, head[c], op'.path) = Absent)
           => Scope__len__(World', c).val.v = Scope__len__(World, c).val.v + 1

\* C17: len() and iteration of a scope raise ValueError before it is
\* finalized.  Once it is, iteration yields the keys of the base mapping and,
\* by dotted path, every member of the Namespaces nested in it; len() is the
\* number of keys yielded; scope[k] succeeds for every key k yielded; and a
\* member added to a nested Namespace makes len() one larger.
C17 == []C17_Finalized /\ [][C17_Step]_vars

\* len() of the scope of Test counted a member two Namespaces deep.
C17_Witness ==
    /\ op.k = "len" /\ op.target = 1 /\ ~IsErr(ret)
    /\ ret.val.v >= 3
    /\ Entry(World, head[1], <<"ns", "ns", "m">>) # Absent


\* What a read through a class of the mro finds under the dotted key, after
\* the step.
Inherited(mro, p) ==
    LET at == {i \in 1..Len(mro) : Entry(World', clsvars'[mro[i]], p) # Absent}
    IN IF at = {} THEN Absent ELSE Entry(World', clsvars'[mro[Min(at)]], p)

\* On a finalized scope, under a dotted key: a get returns the entry the key
\* leads to and raises KeyError with the whole key when it leads to none; a
\* set is read back by the scope and by the class.
C18_GetSet ==
    \A c \in AllClasses :
        /\ (op'.k = "getitem" /\ op'.target = c /\ Len(op'.path) > 1)
           => IF Entry(World, head[c], op'.path) = Absent
              THEN ret' = Raise("KeyError", op'.path)
              ELSE ret' = RValue(wrap(Entry(World, head[c], op'.path), c))
        /\ (op'.k = "setitem" /\ op'.target = c /\ Len(op'.path) > 1 /\ ~IsErr(ret'))
           => /\ Scope__getitem__(World', c, op'.path) = RValue(op'.value)
              /\ attribute_get(World', c, op'.path).r.val = op'.value

\* After del scope['a.b.x'], Class.a.b.x raises AttributeError.
C18_DelClaimed ==
    \A c \in AllClasses :
        (op'.k = "delitem" /\ op'.target = c /\ Len(op'.path) > 1 /\ ~IsErr(ret'))
        => attribute_get(World', c, op'.path).r = Raise("AttributeError", <<Last(op'.path)>>)

\* After del scope['a.b.x'], Class.a.b.x is what the bases of the class hold
\* under a.b.x, and raises AttributeError when they hold nothing.
C18_Del ==
    \A c \in AllClasses :
        (op'.k = "delitem" /\ op'.target = c /\ Len(op'.path) > 1 /\ ~IsErr(ret'))
        => IF Inherited(Tail(Mro(c)), op'.path) = Absent
           THEN attribute_get(World', c, op'.path).r
                    = Raise("AttributeError", <<Last(op'.path)>>)
           ELSE attribute_get(World', c, op'.path).r.val = Inherited(Tail(Mro(c)), op'.path)

TooDeep(c, name) ==
    \E k \in 1..(Len(name) - 1) :
        /\ \A j \in 1..(k - 1) : attribute_get(World, c, SubSeq(name, 1, j)).r.t = "proxy"
        /\ ~IsErr(attribute_get(World, c, SubSeq(name, 1, k)).r)
        /\ attribute_get(World, c, SubSeq(name, 1, k)).r.t # "proxy"

C19_Step ==
    \A c \in AllClasses :
        (/\ op'.k \in {"getattr", "setattr", "delattr"} /\ op'.target = c
         /\ Len(op'.path) > 1 /\ TooDeep(c, op'.path))
        => /\ ret' = Raise("ValueError: Given a dot attribute that went too deep.", <<>>)
           /\ World' = World

\* C19: a dotted get, set or delete on a class in which a segment before the
\* last resolves to a value that is no namespace proxy raises
\* ValueError('Given a dot attribute that went too deep.') and leaves every
\* class, Namespace and registry as it was.
C19 == [][C19_Step]_vars

\* setattr(Test, 'ns.m.x', 2) was refused: m, in ns, is no namespace.
C19_Witness ==
    /\ op.k = "setattr" /\ op.target = 1 /\ op.path = <<"ns", "m", "x">>
    /\ ret = Raise("ValueError: Given a dot attribute that went too deep.", <<>>)
    /\ Entry(World, clsvars[1], <<"ns", "m">>) # Absent


\* Class.name = Namespace(): the Namespace is bound to the name, the scope
\* and the base mapping of the class, registered for (Class, (name,)) with
\* the class as its owner, and inactive.
C20_Add ==
    \A c \in AllClasses :
        (op'.k = "set" /\ op'.target = c /\ IsNamespace(op'.value) /\ Len(op'.path) = 1)
        => LET n == op'.value.v IN
           /\ ~IsErr(ret')
           /\ heap'[n].name = op'.path[1]
           /\ heap'[n].scope = c
           /\ heap'[n].parent = Base(c)
           /\ ~heap'[n].active
           /\ Lookup(World', c, op'.path) = n
           /\ heap'[n].parent_object = c

\* Class.ns.inner = Namespace(): the Namespace is bound as the child of the
\* Namespace Class.ns and registered for (Class, ('ns', 'inner')) with the
\* same owner.
C20_Nested ==
    \A c \in AllClasses :
        (/\ op'.k = "set" /\ op'.target = c /\ IsNamespace(op'.value)
         /\ Len(op'.path) > 1
         /\ IsNamespace(Entry(World, clsvars[c], Front(op'.path))))
        => LET n == op'.value.v IN
           /\ ~IsErr(ret')
           /\ heap'[n].name = Last(op'.path)
           /\ heap'[n].scope = c
           /\ heap'[n].parent = Ns(Entry(World, clsvars[c], Front(op'.path)).v)
           /\ ~heap'[n].active
           /\ Lookup(World', c, op'.path) = n
           /\ heap'[n].parent_object = c

\* A value set through Class.ns or Class.ns.inner is read back there, and
\* what the other one reads is what it read before.
C20_Independent ==
    \A c \in AllClasses :
        (op'.k = "set" /\ op'.target = c /\ ~IsNamespace(op'.value) /\ ~IsErr(ret'))
        => /\ attribute_get(World', c, op'.path).r = RValue(op'.value)
           /\ \A q \in LaterPaths \ {op'.path} :
                  attribute_get(World', c, q).r = attribute_get(World, c, q).r

\* C20: a fresh Namespace assigned as a plain attribute of an existing class
\* is bound (name, scope of the class, base mapping as parent), registered
\* for (Class, (name,)) with the class as owner, and inactive; a fresh
\* Namespace assigned into it is bound as its child and registered under the
\* same owner; sets and gets through the two do not affect each other.
C20 == [][C20_Add /\ C20_Nested /\ C20_Independent]_vars

-----------------------------------------------------------------------------
(* Properties of class creation with the metaclass alone (SpecMustInherit). *)

\* C21: a class statement whose metaclass is the namespace-enabled metaclass
\* and whose class does not derive from Namespaceable raises, and the class
\* is not created.
C21 ==
    \A c \in AllClasses :
        (op.k = "classdef" /\ op.target = c /\ ~issubclass_Namespaceable(c))
        => /\ IsErr(ret)
           /\ phase[c] # "created"

-----------------------------------------------------------------------------
(* Properties of reads, writes and deletes through instances                *)
(* (SpecInstance).                                                          *)

\* The classes whose entry for path.name an instance of class c reads when it
\* has no entry of its own: c and the classes that inherit the entry from c.
Inheritors(c, path, name) ==
    {d \in AllClasses :
        /\ phase[d] = "created"
        /\ \E k \in 1..Len(Mro(d)) :
              /\ Mro(d)[k] = c
              /\ \A j \in 1..(k - 1) : ClassEntry(Mro(d)[j], path, name) = Absent}

C22_Instance ==
    \A i \in AllInstances :
        (/\ Did("set", i, <<"ns", "m">>)
         /\ Seen(i, <<"ns">>, "m").ok
         /\ ~is_data(Seen(i, <<"ns">>, "m").mro_value))
        => /\ ~IsErr(ret')
           /\ InstanceEntry(i, <<"ns">>, "m")' = op'.value
           /\ \A n \in 1..Len(heap) :
                 n # Lookup(World, i, <<"ns">>) => heap'[n] = heap[n]
           /\ \A c \in AllClasses :
                 /\ ClassEntry(c, <<"ns">>, "m")' = ClassEntry(c, <<"ns">>, "m")
                 /\ Exists(c) => attribute_get(World', c, <<"ns", "m">>).r
                                   = attribute_get(World, c, <<"ns", "m">>).r
           /\ \A j \in AllInstances \ {i} :
                 /\ InstanceEntry(j, <<"ns">>, "m")' = InstanceEntry(j, <<"ns">>, "m")
                 /\ Exists(j) => attribute_get(World', j, <<"ns", "m">>).r
                                   = attribute_get(World, j, <<"ns", "m">>).r

C22_Class ==
    \A c \in AllClasses :
        (/\ Did("set", c, <<"ns", "m">>)
         /\ Seen(c, <<"ns">>, "m").ok
         /\ op'.value.t = "val")
        => /\ ~IsErr(ret')
           /\ attribute_get(World', c, <<"ns", "m">>).r = RValue(op'.value)
           /\ \A i \in AllInstances :
                 (/\ InstClass(i) \in Inheritors(c, <<"ns">>, "m")'
                  /\ InstanceEntry(i, <<"ns">>, "m") = Absent)
                 => attribute_get(World', i, <<"ns", "m">>).r = RValue(op'.value)

\* C22: i.ns.m = v, when the classes of the instance hold no descriptor
\* with a set or delete hook for m, stores v in the instance's own Namespace
\* and nowhere else: the entries of the classes and of the other instances,
\* and what the classes and the other instances read, are as before.
\* C.ns.m = v, for a class that has ns, is read back through the class and
\* through every instance that has no entry of its own.
C22 == [][C22_Instance /\ C22_Class]_vars

\* Nothing the package keeps about Namespaces changes in the step.
NamespacesUnchanged ==
    UNCHANGED <<heap, clsvars, Namespace__namespaces, NAMESPACE_INFOS>>

C23_Set ==
    \A i \in AllInstances :
        (/\ Did("set", i, <<"ns", "m">>)
         /\ Seen(i, <<"ns">>, "m").ok
         /\ is_data(Seen(i, <<"ns">>, "m").mro_value))
        => LET mro_value == Seen(i, <<"ns">>, "m").mro_value IN
           /\ has_set_hook(mro_value)
              => /\ ret' = Result("set", mro_value, i, 0, op'.value, "", <<>>)
                 /\ InstanceEntry(i, <<"ns">>, "m")' = InstanceEntry(i, <<"ns">>, "m")
           /\ ~has_set_hook(mro_value)
              => /\ ret' = Raise("AttributeError", <<"__set__">>)
                 /\ NamespacesUnchanged

C23_Delete ==
    \A i \in AllInstances :
        (/\ Did("delete", i, <<"ns", "m">>)
         /\ Seen(i, <<"ns">>, "m").ok
         /\ is_data(Seen(i, <<"ns">>, "m").mro_value)
         /\ ~has_delete_hook(Seen(i, <<"ns">>, "m").mro_value))
        => /\ ret' = Raise("AttributeError", <<"__delete__">>)
           /\ NamespacesUnchanged

\* C23: i.ns.m = v, when the classes of the instance hold a descriptor with
\* a set or delete hook for m, calls the descriptor's set hook with (i, v)
\* and stores nothing in the instance's Namespace; when the descriptor has
\* no set hook it raises AttributeError('__set__') and changes nothing.
\* del i.ns.m with a descriptor that has no delete hook raises
\* AttributeError('__delete__') and changes nothing.
C23 == [][C23_Set /\ C23_Delete]_vars

C24_Descriptor ==
    \A i \in AllInstances :
        (/\ Did("delete", i, <<"ns", "m">>)
         /\ Seen(i, <<"ns">>, "m").ok
         /\ is_data(Seen(i, <<"ns">>, "m").mro_value))
        => /\ ret' = descriptor_delete(Seen(i, <<"ns">>, "m").mro_value, i)
           /\ InstanceEntry(i, <<"ns">>, "m")' = InstanceEntry(i, <<"ns">>, "m")

C24_Own ==
    \A i \in AllInstances :
        (/\ Did("delete", i, <<"ns", "m">>)
         /\ Seen(i, <<"ns">>, "m").ok
         /\ ~is_data(Seen(i, <<"ns">>, "m").mro_value))
        => /\ InstanceEntry(i, <<"ns">>, "m")' = Absent
           /\ ret' = IF InstanceEntry(i, <<"ns">>, "m") = Absent
                     THEN Raise("AttributeError", <<"m">>)
                     ELSE RNone

\* C24: del i.ns.m looks for a descriptor with a set or delete hook where
\* i.ns.m = v looks for it, in the Namespaces ns of the classes of the
\* instance, base classes included, and calls its delete hook with i; only
\* when there is none does it delete m from the instance's own Namespace.
C24 == [][C24_Descriptor /\ C24_Own]_vars

\* The entry for name in the Namespace registered for a class or an instance
\* at path; Absent if there is none.
Registered_(target, path, name) == InstanceEntry(target, path, name)

\* m exists in the Namespace ns that class c holds, and in no other
\* Namespace ns of a class or an instance.
OnlyIn(c) ==
    /\ ClassEntry(c, <<"ns">>, "m") # Absent
    /\ \A d \in AllClasses \ {c} : ClassEntry(d, <<"ns">>, "m") = Absent
    /\ \A t \in Targets \ {c} : Registered_(t, <<"ns">>, "m") = Absent

Nowhere ==
    /\ \A d \in AllClasses : ClassEntry(d, <<"ns">>, "m") = Absent
    /\ \A t \in Targets : Registered_(t, <<"ns">>, "m") = Absent

\* del i.ns.m leaves the entry of class c where it is, and c and i read it
\* as before.
C25_Kept(i, c) ==
    /\ ret' = Raise("AttributeError", <<"m">>)
    /\ ClassEntry(c, <<"ns">>, "m")' = ClassEntry(c, <<"ns">>, "m")
    /\ ~IsErr(attribute_get(World', c, <<"ns", "m">>).r)
    /\ attribute_get(World', c, <<"ns", "m">>).r = attribute_get(World, c, <<"ns", "m">>).r
    /\ ~IsErr(attribute_get(World', i, <<"ns", "m">>).r)
    /\ attribute_get(World', i, <<"ns", "m">>).r = attribute_get(World, i, <<"ns", "m">>).r

C25_Instance_Claimed ==
    \A i \in AllInstances, c \in AllClasses :
        (/\ Did("delete", i, <<"ns", "m">>)
         /\ \E k \in 1..Len(Mro(InstClass(i))) : Mro(InstClass(i))[k] = c
         /\ OnlyIn(c))
        => C25_Kept(i, c)

C25_Instance ==
    \A i \in AllInstances, c \in AllClasses :
        (/\ Did("delete", i, <<"ns", "m">>)
         /\ \E k \in 1..Len(Mro(InstClass(i))) : Mro(InstClass(i))[k] = c
         /\ OnlyIn(c)
         /\ ~is_data(ClassEntry(c, <<"ns">>, "m")))
        => C25_Kept(i, c)

C25_Class ==
    \A c \in AllClasses :
        (Did("delete", c, <<"ns", "m">>) /\ OnlyIn(c))
        => /\ ~IsErr(ret')
           /\ ClassEntry(c, <<"ns">>, "m")' = Absent
           /\ attribute_get(World', c, <<"ns", "m">>).r = Raise("AttributeError", <<"m">>)
           /\ \A i \in AllInstances :
                 (Exists(i) /\ \E k \in 1..Len(Mro(InstClass(i))) : Mro(InstClass(i))[k] = c)
                 => attribute_get(World', i, <<"ns", "m">>).r = Raise("AttributeError", <<"m">>)

C25_Absent ==
    \A t \in Targets :
        (Did("delete", t, <<"ns", "m">>) /\ Seen(t, <<"ns">>, "m").ok /\ Nowhere)
        => ret' = Raise("AttributeError", <<"m">>)

\* C25 as claimed: del i.ns.m, for a name that only the Namespace of a class
\* holds, raises AttributeError('m') and leaves the entry readable through
\* the class and the instance, whatever the entry is.
C25_Claimed == [][C25_Instance_Claimed]_vars

\* C25: del i.ns.m, for a name that only the Namespace of a class holds and
\* whose entry has no set or delete hook, raises AttributeError('m') and
\* leaves the entry readable through the class and the instance; del C.ns.m
\* removes it, and C.ns.m and i.ns.m raise AttributeError('m'); deleting a
\* name that no Namespace holds raises AttributeError('m').
C25 == [][C25_Instance /\ C25_Class /\ C25_Absent]_vars

\* C25 witness: the instance delete has failed and the class's function is
\* still where it was.
C25_Witness ==
    /\ op.k = "delete" /\ op.target = 21
    /\ ret = Raise("AttributeError", <<"m">>)
    /\ ClassEntry(1, <<"ns">>, "m") = Desc(1, 1)
    /\ attribute_get(World, 21, <<"ns", "m">>).r = Got(Desc(1, 1), 21, 2)

-----------------------------------------------------------------------------
(* Properties of a class of classes with a Namespace (SpecMeta).           *)

\* Reading value for (instance, owner): its get hook if it has one, else the
\* value itself.
Read(value, instance, owner) ==
    IF has_get(value) THEN Got(value, instance, owner) ELSE RValue(value)

C26_Meta ==
    \A c \in AllClasses, name \in Names :
        (/\ Did("get", c, <<"ns", name>>)
         /\ MetaOf(c) # None
         /\ ClassEntry(MetaOf(c), <<"ns">>, name) # Absent
         /\ ClassEntry(c, <<"ns">>, name) = Absent)
        => ret' = Read(ClassEntry(MetaOf(c), <<"ns">>, name), c, MetaOf(c))

C26_Own ==
    \A c \in AllClasses, name \in Names :
        (/\ Did("get", c, <<"ns", name>>)
         /\ MetaOf(c) # None
         /\ ClassEntry(c, <<"ns">>, name) # Absent
         /\ ~(is_data(ClassEntry(MetaOf(c), <<"ns">>, name))
              /\ has_get(ClassEntry(MetaOf(c), <<"ns">>, name))))
        => ret' = Read(ClassEntry(c, <<"ns">>, name), None, c)

C26_Hidden ==
    \A c \in AllClasses, name \in Names :
        (/\ Did("get", MetaOf(c), <<"ns", name>>)
         /\ MetaOf(c) # None
         /\ ClassEntry(c, <<"ns">>, name) # Absent
         /\ ClassEntry(MetaOf(c), <<"ns">>, name) = Absent)
        => ret' = Raise("AttributeError", <<name>>)

C26_Instance ==
    \A i \in AllInstances, name \in Names :
        (/\ Did("get", i, <<"ns", name>>)
         /\ MetaOf(InstClass(i)) # None
         /\ ClassEntry(MetaOf(InstClass(i)), <<"ns">>, name) # Absent
         /\ ClassEntry(InstClass(i), <<"ns">>, name) = Absent
         /\ InstanceEntry(i, <<"ns">>, name) = Absent)
        => ret' = Raise("AttributeError", <<name>>)

\* C26: with Meta a class of classes that holds ns.m and MTest a class with
\* metaclass Meta that holds ns.x, MTest.ns.m reads Meta's m for
\* (instance MTest, owner Meta), MTest.ns.x reads MTest's own x, Meta.ns.x
\* raises AttributeError('x'), and an instance of MTest that has no m of its
\* own raises AttributeError('m') on ns.m.
C26 == [][C26_Meta /\ C26_Own /\ C26_Hidden /\ C26_Instance]_vars

\* C26 witness: MTest.ns.m has just read the function of Meta's ns, bound to
\* MTest, while MTest's own ns holds only x.
C26_Witness ==
    /\ op.k = "get" /\ op.target = 7 /\ op.path = <<"ns", "m">>
    /\ ClassEntry(6, <<"ns">>, "m") = Desc(1, 1)
    /\ ClassEntry(7, <<"ns">>, "m") = Absent
    /\ ClassEntry(7, <<"ns">>, "x") # Absent
    /\ ret = Got(Desc(1, 1), 7, 6)

-----------------------------------------------------------------------------
(* Properties of __set_name__ (SpecSetName).                               *)

\* How many times the hook of the member that Namespace n holds under name
\* has been called with (c, name).
SetNameCount(calls, n, c, name) ==
    Cardinality({k \in 1..Len(calls) :
                    /\ calls[k].ns = n
                    /\ calls[k].owner = c
                    /\ calls[k].name = name})

C27_Step ==
    \A c \in AllClasses :
        (op'.k = "new" /\ op'.target = c /\ ~IsErr(ret'))
        => \A n \in 1..Len(heap'), name \in Names :
              (heap'[n].scope = c /\ has_set_name(heap'[n].items[name]))
              => SetNameCount(set_name_calls', n, c, name) = 1

\* C27: when the class is created, the __set_name__ hook of every member of
\* every Namespace of the body, nested or not, entered once or again with
\* `with ns as ns:`, has been called with (the class, the member's name)
\* exactly once.
C27 == [][C27_Step]_vars

C28_Step ==
    (/\ op'.k \in {"get", "delete"}
     /\ op'.k = "delete" => IsErr(ret'))
    => /\ Namespace__namespaces' = Namespace__namespaces
       /\ NAMESPACE_INFOS' = NAMESPACE_INFOS
       /\ Len(heap') = Len(heap)

\* C28: a read through a proxy, and a delete through a proxy that raises,
\* add no Namespace: the registry of the classes and the side table of
\* every instance are as before; an instance gets its Namespace with its
\* first write.
C28 == [][C28_Step]_vars

-----------------------------------------------------------------------------
(* Properties of Namespace.path (SpecPath).                                *)

C29_Get ==
    \A t \in Targets, p \in Paths :
        (Did("get_namespace", t, p) /\ p # <<>>)
        => /\ ~IsErr(ret')
           /\ Namespace_path(World', ret'.val.v) = p
           /\ \A k \in 1..(Len(p) - 1) :
                 /\ Lookup(World', t, SubSeq(p, 1, k)) # 0
                 /\ Namespace_path(World', Lookup(World', t, SubSeq(p, 1, k)))
                      = SubSeq(p, 1, k)

C29_Unset ==
    \A n \in 1..Len(heap) :
        (/\ op'.k = "path" /\ op'.target = n
         /\ (heap[n].name = NoneName \/ heap[n].parent = NoneRef))
        => ret' = Raise("ValueError", <<>>)

\* C29: Namespace.get_namespace(target, p), for a non-empty p, returns a
\* Namespace whose path is p, and every shorter non-empty prefix of p is then
\* registered for the target with a Namespace whose path is that prefix; the
\* path of a Namespace without a name or without a parent raises ValueError.
C29 == [][C29_Get /\ C29_Unset]_vars

\* C29 witness: get_namespace has just made the Namespaces of an instance
\* for ('x', 'ns', 'm') and its two prefixes.
C29_Witness ==
    /\ op.k = "get_namespace" /\ op.target = 11 /\ op.path = <<"x", "ns", "m">>
    /\ Namespace_path(World, ret.val.v) = <<"x", "ns", "m">>
    /\ Lookup(World, 11, <<"x">>) # 0
    /\ Lookup(World, 11, <<"x", "ns">>) # 0

-----------------------------------------------------------------------------
(* Properties of a bind that fails (SpecPush).                             *)

BindErrors ==
    {Raise("ValueError: Cannot rename namespace", <<>>),
     Raise("ValueError: Cannot reuse namespace", <<>>),
     Raise("ValueError: Cannot reparent namespace", <<>>)}

C30_Step ==
    \A n \in 1..Len(heap) :
        (Pushed(n) /\ ret' \in BindErrors)
        => /\ heap'[n].name = heap[n].name
           /\ heap'[n].scope = heap[n].scope
           /\ heap'[n].parent = heap[n].parent
           /\ heap'[n].active = heap[n].active
           /\ heap'[n].needs_setup = heap[n].needs_setup
           /\ namespaces' = namespaces

\* C30: a call of push that raises 'Cannot rename namespace', 'Cannot reuse
\* namespace' or 'Cannot reparent namespace' leaves the name, the scope, the
\* parent, the active flag and the needs_setup flag of the Namespace and the
\* namespaces list of every scope as they were, also for a Namespace that has
\* a name and a parent and no scope.
C30 == [][C30_Step]_vars

-----------------------------------------------------------------------------
(* Properties of an activation that fails (SpecActivate).                  *)

ActivationErrors ==
    {Raise("ValueError: Cannot double-activate.", <<>>),
     Raise("ValueError: Cannot reparent namespace", <<>>),
     Raise("ValueError: Cannot push a finalized scope!", <<>>)}

C31_Step ==
    (op'.k \in {"with", "resume", "activate"} /\ ret' \in ActivationErrors)
    => /\ dicts' = dicts
       /\ \A n \in 1..Len(heap) :
             /\ heap'[n].active = heap[n].active
             /\ heap'[n].needs_setup = heap[n].needs_setup

C31_Active ==
    \A n \in 1..Len(heap) :
        (heap[n].scope # None /\ heap[n].active) => OnStack(heap[n].scope, n) # {}

\* C31: entering a Namespace or calling activate() on it, when that raises
\* 'Cannot double-activate.', 'Cannot reparent namespace' or 'Cannot push a
\* finalized scope!', leaves the active flag and the needs_setup flag of the
\* Namespace and the overlay stack of the scope as they were; a Namespace
\* that is marked active is on the overlay stack of its scope.
C31 == [][C31_Step]_vars /\ []C31_Active

-----------------------------------------------------------------------------
(* Properties of a Namespace stored through a proxy (SpecStore).           *)

\* target.ns is a Namespace, seen through a proxy.
Proxied(t) == attribute_get(World, t, <<"ns">>).r.val.t = "proxy"

\* What the statement target.ns.x = Namespace() leaves behind.
C32_Step ==
    \A t \in StoreTargets :
        (/\ op'.k = "set" /\ op'.target = t /\ op'.path = <<"ns", "x">>
         /\ IsNamespace(op'.value) /\ Proxied(t))
        => LET n == op'.value.v
               N == Lookup(World', t, <<"ns">>) IN
           /\ ~IsErr(ret')
           /\ N # 0
           /\ heap'[n].name = "x"
           /\ heap'[n].parent = Ns(N)
           /\ heap'[n].scope = heap'[N].scope
           /\ heap'[N].parent_object # None
                  => n \in Registered(World', heap'[N].parent_object, <<"ns", "x">>)
           /\ heap'[N].items["x"] = op'.value

\* C32: target.ns.x = Namespace(), where target.ns is a Namespace made in
\* the class body, attached after class creation, or created on first use
\* for a subclass or an instance, completes without error; the new Namespace
\* has the name x, the Namespace target.ns as parent and its scope, is
\* registered under the owner of target.ns when that has one, and is stored
\* in target.ns.
C32 == [][C32_Step]_vars

-----------------------------------------------------------------------------
(* Properties of leaving a block (SpecBody).                               *)

\* The exit of the innermost block of the body of class c, on a Namespace
\* that has a name: the overlay stack is as deep as before the block was
\* entered and the Namespace is inactive.
C33_Exit ==
    \A c \in AllClasses :
        (/\ op'.k = "exit" /\ op'.target = c
         /\ heap[Head(blocks[c]).ns].name # NoneName)
        => /\ Len(dicts'[c]) = Head(blocks[c]).depth
           /\ ~heap'[Head(blocks[c]).ns].active

\* A with statement whose `as` clause raises has left its block.
C33_As ==
    \A c \in AllClasses :
        (/\ op'.k \in {"with", "resume"} /\ op'.target = c /\ IsErr(ret')
         /\ op'.aux # NoneName)
        => Len(dicts'[c]) = Len(dicts[c])

\* A body whose blocks have all been left can be finalized.
C33_Final ==
    \A c \in AllClasses :
        (phase[c] = "body" /\ blocks[c] = <<>>) => Len(dicts[c]) = 1

\* C33: when a block on a named Namespace is left, after a statement of its
\* body raised or not, the overlay stack has the depth it had before the
\* block was entered and the Namespace is inactive; a class body whose
\* blocks have all been left can be finalized.
C33 == [][C33_Exit /\ C33_As]_vars /\ []C33_Final

-----------------------------------------------------------------------------
(* Properties of the overlay stack of a class body (SpecDeactivate).       *)

\* The overlay stack of the body of class c: the base mapping at the
\* bottom, above it the active Namespaces of the scope and nothing else,
\* each once, each with the overlay beneath it as parent.
C34_Stack ==
    \A c \in AllClasses :
        phase[c] = "body"
        => /\ dicts[c][Len(dicts[c])] = Base(c)
           /\ \A i \in 1..(Len(dicts[c]) - 1) :
                  /\ dicts[c][i][1] = "ns"
                  /\ heap[dicts[c][i][2]].scope = c
                  /\ heap[dicts[c][i][2]].active
                  /\ heap[dicts[c][i][2]].parent = dicts[c][i + 1]
           /\ \A n \in 1..Len(heap) :
                  (heap[n].scope = c /\ heap[n].active)
                  => Cardinality(OnStack(c, n)) = 1

\* deactivate() of an active Namespace takes that Namespace off the stack.
C34_Deactivate ==
    \A n \in 1..Len(heap) :
        (/\ op'.k = "deactivate" /\ op'.value = NsVal(n)
         /\ heap[n].scope # None /\ heap[n].active
         /\ phase[heap[n].scope] = "body")
        => /\ ~heap'[n].active
           /\ OnStack(heap[n].scope, n)' = {}

\* C34: while a class body runs, whatever blocks are entered and left and
\* whatever activate, deactivate and assignment calls are made, the bottom
\* of the overlay stack is the base mapping, the overlays above it are
\* exactly the active Namespaces of the scope, each once and each with the
\* overlay beneath it as parent; deactivate() of an active Namespace removes
\* that Namespace from the stack.
C34 == []C34_Stack /\ [][C34_Deactivate]_vars

-----------------------------------------------------------------------------
(* Properties of a write through a class that inherits ns (SpecInstance).  *)

\* C35: for Subclass, which inherits the Namespace ns of Test and has no ns
\* of its own in its body, Subclass.ns.m = v is read back: Subclass.ns.m is
\* v afterwards, and Test.ns.m reads what it read before.
C35 ==
    [][(/\ Did("set", 2, <<"ns", "m">>)
            /\ ClassNamespace(1, <<"ns">>) # 0
            /\ ClassNamespace(2, <<"ns">>) = 0)
           => /\ ~IsErr(ret')
              /\ attribute_get(World', 2, <<"ns", "m">>).r = RValue(op'.value)
              /\ attribute_get(World', 1, <<"ns", "m">>).r = attribute_get(World, 1, <<"ns", "m">>).r]_vars

-----------------------------------------------------------------------------
(* Properties of a class whose metaclass has no Namespace at the path      *)
(* (SpecMetaBare).                                                         *)

\* Class c holds a Namespace ns and its metaclass, a Namespaceable class of
\* classes, holds none.
BareMeta(c) ==
    /\ MetaOf(c) # None
    /\ ClassNamespace(c, <<"ns">>) # 0
    /\ ClassNamespace(MetaOf(c), <<"ns">>) = 0

\* c.ns.name reads the entry of c, and raises AttributeError when c has none.
C36_Get ==
    \A c \in AllClasses, name \in Names :
        (Did("get", c, <<"ns", name>>) /\ BareMeta(c))
        => ret' = IF ClassEntry(c, <<"ns">>, name) # Absent
                  THEN Read(ClassEntry(c, <<"ns">>, name), None, c)
                  ELSE Raise("AttributeError", <<name>>)

\* A get, set or delete through c.ns raises nothing but AttributeError.
C36_Errors ==
    \A c \in AllClasses :
        (/\ op'.k \in {"get", "set", "delete"} /\ op'.target = c
         /\ Len(op'.path) = 2 /\ BareMeta(c) /\ IsErr(ret'))
        => ret'.msg = "AttributeError"

\* C36: for a class that defines ns and whose metaclass is a Namespaceable
\* class of classes without a Namespace ns, a read of Class.ns.name returns
\* the entry of the class, a missing name raises AttributeError, and no get,
\* set or delete through Class.ns raises another kind of exception.
C36 == [][C36_Get /\ C36_Errors]_vars

-----------------------------------------------------------------------------
(* Properties of the Namespaces a class holds (SpecStore).                 *)

StoredPaths == {<<"ns">>, <<"ns", "x">>}

\* C37: a Namespace that a created class holds under a path, in its
\* attribute table or in a Namespace it holds, is the Namespace registered
\* for (class, path) and has the class as its owner, whatever reads, writes
\* and deletes through the class came before the Namespace was attached.
C37 ==
    \A c \in AllClasses, path \in StoredPaths :
        (phase[c] = "created" /\ ClassNamespace(c, path) # 0)
        => /\ Lookup(World, c, path) = ClassNamespace(c, path)
           /\ heap[ClassNamespace(c, path)].parent_object = c

-----------------------------------------------------------------------------
(* Properties of a block on a Namespace without a scope (SpecUnnamed).     *)

\* `with Namespace():` is entered without error and leaves the overlay stack
\* as it was; the new Namespace has no scope and is not active.
C38_Enter ==
    \A c \in AllClasses :
        (op'.k = "with" /\ op'.target = c /\ op'.path = <<NoneName>>)
        => /\ ~IsErr(ret')
           /\ dicts' = dicts
           /\ Len(heap') = Len(heap) + 1
           /\ heap'[Len(heap')].scope = None
           /\ ~heap'[Len(heap')].active
           /\ Head(blocks'[c]).ns = Len(heap')

\* An assignment in a block on a Namespace without a scope is written to
\* the overlay on top of the stack, which the block has not changed; the
\* Namespace of the block gets nothing.
C38_Assign ==
    \A c \in AllClasses, key \in Names :
        (/\ Ran("assign", c, key) /\ blocks[c] # <<>>
         /\ heap[Head(blocks[c]).ns].scope = None)
        => /\ ~IsErr(ret')
           /\ Len(dicts[c]) = Head(blocks[c]).depth
           /\ dicts' = dicts
           /\ RefItems(World', dicts[c][1])[key] = op'.value
           /\ heap'[Head(blocks[c]).ns].items = EmptyItems

\* A Namespace that was entered without a scope (needs_setup is what
\* __enter__ left on it) is not put on an overlay stack by any step.
C38_Never ==
    \A c \in AllClasses, n \in 1..Len(heap) :
        (heap[n].scope = None /\ heap[n].needs_setup) => OnStack(c, n)' = {}

\* A Namespace without a scope is on no overlay stack.
C38_Off ==
    \A c \in AllClasses, n \in 1..Len(heap) :
        heap[n].scope = None => OnStack(c, n) = {}

\* C38: a block on a fresh Namespace that is given no name is entered with
\* the overlay stack unchanged, the Namespace never is an overlay, and every
\* name assigned inside the block is written to the overlay that was on top
\* before the block and not to the Namespace.
C38 == [][C38_Enter /\ C38_Assign /\ C38_Never]_vars /\ []C38_Off

-----------------------------------------------------------------------------
(* Properties of an instance that can carry no Namespace (SpecFixed).      *)

\* i is an instance that _NAMESPACE_INFOS cannot hold, of a class that holds
\* the Namespace ns.
Fixed(i) == ~weakrefable(i) /\ ClassNamespace(InstClass(i), <<"ns">>) # 0

\* No Namespace has gained, lost or changed an entry, and none was made.
NamespacesKept == heap' = heap /\ NAMESPACE_INFOS' = NAMESPACE_INFOS

\* instance.ns.name reads the entry of the class.
C39_Get ==
    \A i \in AllInstances, name \in Names :
        (Did("get", i, <<"ns", name>>) /\ Fixed(i))
        => /\ ret' = IF ClassEntry(InstClass(i), <<"ns">>, name) = Absent
                     THEN Raise("AttributeError", <<name>>)
                     ELSE Read(ClassEntry(InstClass(i), <<"ns">>, name), i, InstClass(i))
           /\ NamespacesKept

C39_Claimed_Step ==
    \A i \in AllInstances, name \in Names :
        (op'.k \in {"set", "delete"} /\ op'.target = i /\ op'.path = <<"ns", name>> /\ Fixed(i))
        => /\ IsErr(ret') /\ ret'.msg = "AttributeError"
           /\ NamespacesKept

\* C39 as claimed: through an instance that can carry no Namespace, reads
\* return the values of the class, and every set and every delete raises
\* AttributeError and leaves the Namespace of the class unchanged.
C39_Claimed == [][C39_Get /\ C39_Claimed_Step]_vars

C39_Set ==
    \A i \in AllInstances, name \in Names :
        (Did("set", i, <<"ns", name>>) /\ Fixed(i))
        => /\ ret' = IF is_data(ClassEntry(InstClass(i), <<"ns">>, name))
                     THEN descriptor_set(ClassEntry(InstClass(i), <<"ns">>, name), i, op'.value)
                     ELSE Raise("AttributeError", <<name>>)
           /\ NamespacesKept

C39_Delete ==
    \A i \in AllInstances, name \in Names :
        (Did("delete", i, <<"ns", name>>) /\ Fixed(i))
        => /\ ret' = IF is_data(ClassEntry(InstClass(i), <<"ns">>, name))
                     THEN descriptor_delete(ClassEntry(InstClass(i), <<"ns">>, name), i)
                     ELSE Raise("AttributeError", <<name>>)
           /\ NamespacesKept

\* C39: through an instance that can carry no Namespace, reads return the
\* values of the class; a set or delete of a name that the class holds as a
\* data descriptor calls __set__ or __delete__ of the descriptor with the
\* instance, and raises AttributeError when the descriptor has no such hook;
\* a set or delete of any other name raises AttributeError; the Namespace of
\* the class is unchanged in every case.
C39 == [][C39_Get /\ C39_Set /\ C39_Delete]_vars

\* C39 witness: Fixed holds a plain value m in ns, and Fixed().ns.m = 2 was
\* refused with AttributeError.
C39_Witness ==
    /\ op.k = "set" /\ op.target = 91 /\ op.path = <<"ns", "m">>
    /\ ClassEntry(9, <<"ns">>, "m") = Val(1)
    /\ ret = Raise("AttributeError", <<"m">>)

====
